---- MODULE Spec2Model ----
(***************************************************************************)
(* Model of the NEON DROP falling-block engine (hambomyers/blockzone2):    *)
(*   physics-pure.js   (src/unnamed/part_002)  collision, rotation, lines  *)
(*   game-state.js     (src/unnamed/part_003)  pieces, skill, selection    *)
(*   scoring-engine.js (src/unnamed/part_001)  ledger, hash chain          *)
(*   random.js                                  LCG                        *)
(*   game-engine.js                             tick / handleInput / start *)
(*   main.js                                    pause / resume / restart   *)
(*                                                                         *)
(* Arrays are 0-based in the source and 1-based tuples here: a board is a  *)
(* tuple of 20 rows of 10 cells and board[y][x] of the source is           *)
(* board[y+1][x+1].  JavaScript strings that are hashed are tuples of      *)
(* character codes.  32-bit quantities are kept as two 16-bit limbs        *)
(* <<hi, lo>> because the arithmetic has to wrap modulo 2^32.              *)
(***************************************************************************)
EXTENDS Integers, Sequences, FiniteSets, TLC

(***************************************************************************)
(* Program constants                                                       *)
(***************************************************************************)
BoardWidth == 10
BoardHeight == 20
LockDelay == 500
MaxLockTime == 5000
ClearDelay == 300
MaxUpMoves == 7

Null == "null"

Min(a, b) == IF a < b THEN a ELSE b
Max(a, b) == IF a > b THEN a ELSE b

(***************************************************************************)
(* game-state.js: piece definitions                                        *)
(***************************************************************************)
PieceTypes == {"I", "J", "L", "O", "S", "T", "Z", "FLOAT", "PLUS", "U", "DOT"}

PIECE_DEFINITIONS(type) ==
    CASE type = "I" -> [shape |-> << <<0,0,0,0>>, <<1,1,1,1>>, <<0,0,0,0>>, <<0,0,0,0>> >>,
                        color |-> "#00FFFF", spawn |-> [x |-> 3, y |-> -2]]
      [] type = "J" -> [shape |-> << <<1,0,0>>, <<1,1,1>>, <<0,0,0>> >>,
                        color |-> "#0000FF", spawn |-> [x |-> 3, y |-> -2]]
      [] type = "L" -> [shape |-> << <<0,0,1>>, <<1,1,1>>, <<0,0,0>> >>,
                        color |-> "#FF7F00", spawn |-> [x |-> 3, y |-> -2]]
      [] type = "O" -> [shape |-> << <<1,1>>, <<1,1>> >>,
                        color |-> "#FFFF00", spawn |-> [x |-> 4, y |-> -2]]
      [] type = "S" -> [shape |-> << <<0,1,1>>, <<1,1,0>>, <<0,0,0>> >>,
                        color |-> "#00FF00", spawn |-> [x |-> 3, y |-> -2]]
      [] type = "T" -> [shape |-> << <<0,1,0>>, <<1,1,1>>, <<0,0,0>> >>,
                        color |-> "#8A2BE2", spawn |-> [x |-> 3, y |-> -2]]
      [] type = "Z" -> [shape |-> << <<1,1,0>>, <<0,1,1>>, <<0,0,0>> >>,
                        color |-> "#FF0000", spawn |-> [x |-> 3, y |-> -2]]
      [] type = "FLOAT" -> [shape |-> << <<1>> >>,
                        color |-> "#FFFFFF", spawn |-> [x |-> 4, y |-> -1]]
      [] type = "PLUS" -> [shape |-> << <<0,1,0>>, <<1,1,1>>, <<0,1,0>> >>,
                        color |-> "#FFD700", spawn |-> [x |-> 3, y |-> -3]]
      [] type = "U" -> [shape |-> << <<1,0,1>>, <<1,0,1>>, <<1,1,1>> >>,
                        color |-> "#FF69B4", spawn |-> [x |-> 3, y |-> -3]]
      [] type = "DOT" -> [shape |-> << <<1,1,0>>, <<1,0,1>>, <<0,1,1>> >>,
                        color |-> "#00CED1", spawn |-> [x |-> 3, y |-> -3]]

\* The absent piece (null in the source).
NoPiece == [type |-> Null]

\* createPiece(type).  The source leaves `generation` undefined on a fresh
\* piece; it is 0 here until spawn / hold assigns one.
createPiece(type) ==
    [type |-> type,
     shape |-> PIECE_DEFINITIONS(type).shape,
     color |-> PIECE_DEFINITIONS(type).color,
     gridX |-> PIECE_DEFINITIONS(type).spawn.x,
     gridY |-> PIECE_DEFINITIONS(type).spawn.y,
     rotation |-> 0,
     upMovesUsed |-> 0,
     generation |-> 0]

createEmptyBoard == [y \in 1..BoardHeight |-> [x \in 1..BoardWidth |-> Null]]

(***************************************************************************)
(* physics-pure.js                                                         *)
(***************************************************************************)
\* board[boardY][boardX] of the source
BoardCell(board, boardX, boardY) == board[boardY + 1][boardX + 1]

\* piece.shape[dy][dx] of the source
ShapeCell(shape, dx, dy) == shape[dy + 1][dx + 1]

\* canPieceFitAt with the row test first: a sub-cell above the board is
\* accepted before its column is looked at.
canPieceFitAtRowFirst(board, piece, x, y) ==
    \A dy \in 0..(Len(piece.shape) - 1) :
        \A dx \in 0..(Len(piece.shape[dy + 1]) - 1) :
            IF ShapeCell(piece.shape, dx, dy) = 0 THEN TRUE
            ELSE LET boardX == x + dx
                     boardY == y + dy
                 IN  IF boardY < 0 THEN TRUE
                     ELSE IF boardX < 0 \/ boardX >= 10 THEN FALSE
                     ELSE IF boardY >= 20 THEN FALSE
                     ELSE BoardCell(board, boardX, boardY) = Null

canPieceFitAt(board, piece, x, y) ==
    \A dy \in 0..(Len(piece.shape) - 1) :
        \A dx \in 0..(Len(piece.shape[dy + 1]) - 1) :
            IF ShapeCell(piece.shape, dx, dy) = 0 THEN TRUE
            ELSE LET boardX == x + dx
                     boardY == y + dy
                 IN  IF boardX < 0 \/ boardX >= 10 THEN FALSE
                     ELSE IF boardY < 0 THEN TRUE
                     ELSE IF boardY >= 20 THEN FALSE
                     ELSE BoardCell(board, boardX, boardY) = Null

RECURSIVE ShadowFrom(_, _, _)
ShadowFrom(board, piece, shadowY) ==
    IF shadowY < 20 /\ canPieceFitAt(board, piece, piece.gridX, shadowY + 1)
    THEN ShadowFrom(board, piece, shadowY + 1)
    ELSE shadowY

calculateShadow(board, piece) == ShadowFrom(board, piece, piece.gridY)

\* rotatePiece that turns the shape clockwise whatever the direction.
rotatePieceOneWay(piece, direction) ==
    LET n == Len(piece.shape)
        rotated == [i \in 1..n |-> [j \in 1..n |->
                       ShapeCell(piece.shape, (i - 1), n - 1 - (j - 1))]]
    IN  [piece EXCEPT !.shape = rotated,
                      !.rotation = (piece.rotation + direction + 4) % 4]

rotatePiece(piece, direction) ==
    LET n == Len(piece.shape)
        rotated == [i \in 1..n |-> [j \in 1..n |->
                       IF direction = 1
                       THEN ShapeCell(piece.shape, (i - 1), n - 1 - (j - 1))
                       ELSE ShapeCell(piece.shape, n - 1 - (i - 1), (j - 1))]]
    IN  [piece EXCEPT !.shape = rotated,
                      !.rotation = (piece.rotation + direction + 4) % 4]

\* The kick tables of getWallKicks, keyed by the transition fromRot -> toRot.
KickTableI(fromRot, toRot) ==
    CASE fromRot = 0 /\ toRot = 1 -> << [x |-> -2, y |-> 0], [x |-> 1, y |-> 0], [x |-> -2, y |-> -1], [x |-> 1, y |-> 2] >>
      [] fromRot = 1 /\ toRot = 0 -> << [x |-> 2, y |-> 0], [x |-> -1, y |-> 0], [x |-> 2, y |-> 1], [x |-> -1, y |-> -2] >>
      [] fromRot = 1 /\ toRot = 2 -> << [x |-> -1, y |-> 0], [x |-> 2, y |-> 0], [x |-> -1, y |-> 2], [x |-> 2, y |-> -1] >>
      [] fromRot = 2 /\ toRot = 1 -> << [x |-> 1, y |-> 0], [x |-> -2, y |-> 0], [x |-> 1, y |-> -2], [x |-> -2, y |-> 1] >>
      [] fromRot = 2 /\ toRot = 3 -> << [x |-> 2, y |-> 0], [x |-> -1, y |-> 0], [x |-> 2, y |-> 1], [x |-> -1, y |-> -2] >>
      [] fromRot = 3 /\ toRot = 2 -> << [x |-> -2, y |-> 0], [x |-> 1, y |-> 0], [x |-> -2, y |-> -1], [x |-> 1, y |-> 2] >>
      [] fromRot = 3 /\ toRot = 0 -> << [x |-> 1, y |-> 0], [x |-> -2, y |-> 0], [x |-> 1, y |-> -2], [x |-> -2, y |-> 1] >>
      [] fromRot = 0 /\ toRot = 3 -> << [x |-> -1, y |-> 0], [x |-> 2, y |-> 0], [x |-> -1, y |-> 2], [x |-> 2, y |-> -1] >>
      [] OTHER -> << >>

KickTableDefault(fromRot, toRot) ==
    CASE fromRot = 0 /\ toRot = 1 -> << [x |-> -1, y |-> 0], [x |-> -1, y |-> 1], [x |-> 0, y |-> -2], [x |-> -1, y |-> -2] >>
      [] fromRot = 1 /\ toRot = 0 -> << [x |-> 1, y |-> 0], [x |-> 1, y |-> -1], [x |-> 0, y |-> 2], [x |-> 1, y |-> 2] >>
      [] fromRot = 1 /\ toRot = 2 -> << [x |-> 1, y |-> 0], [x |-> 1, y |-> -1], [x |-> 0, y |-> 2], [x |-> 1, y |-> 2] >>
      [] fromRot = 2 /\ toRot = 1 -> << [x |-> -1, y |-> 0], [x |-> -1, y |-> 1], [x |-> 0, y |-> -2], [x |-> -1, y |-> -2] >>
      [] fromRot = 2 /\ toRot = 3 -> << [x |-> 1, y |-> 0], [x |-> 1, y |-> 1], [x |-> 0, y |-> -2], [x |-> 1, y |-> -2] >>
      [] fromRot = 3 /\ toRot = 2 -> << [x |-> -1, y |-> 0], [x |-> -1, y |-> -1], [x |-> 0, y |-> 2], [x |-> -1, y |-> 2] >>
      [] fromRot = 3 /\ toRot = 0 -> << [x |-> -1, y |-> 0], [x |-> -1, y |-> -1], [x |-> 0, y |-> 2], [x |-> -1, y |-> 2] >>
      [] fromRot = 0 /\ toRot = 3 -> << [x |-> 1, y |-> 0], [x |-> 1, y |-> 1], [x |-> 0, y |-> -2], [x |-> 1, y |-> -2] >>
      [] OTHER -> << >>

\* getWallKicks reading the shared table for every kind
getWallKicksShared(piece, direction) ==
    KickTableDefault(piece.rotation, (piece.rotation + direction + 4) % 4)

getWallKicks(piece, direction) ==
    LET fromRot == piece.rotation
        toRot == (piece.rotation + direction + 4) % 4
    IN  IF piece.type = "I" THEN KickTableI(fromRot, toRot)
        ELSE KickTableDefault(fromRot, toRot)

\* The first kick, in table order, at which the rotated piece fits.
RECURSIVE FirstKick(_, _, _, _)
FirstKick(board, rotated, kicks, k) ==
    IF k > Len(kicks) THEN [success |-> FALSE, piece |-> NoPiece]
    ELSE LET kickX == rotated.gridX + kicks[k].x
             kickY == rotated.gridY + kicks[k].y
         IN  IF canPieceFitAt(board, rotated, kickX, kickY)
             THEN [success |-> TRUE,
                   piece |-> [rotated EXCEPT !.gridX = kickX, !.gridY = kickY]]
             ELSE FirstKick(board, rotated, kicks, k + 1)

tryRotation(board, piece, direction) ==
    LET rotated == rotatePiece(piece, direction)
    IN  IF canPieceFitAt(board, rotated, rotated.gridX, rotated.gridY)
        THEN [success |-> TRUE, piece |-> rotated]
        ELSE IF piece.type = "O"
        THEN [success |-> FALSE, piece |-> NoPiece]
        ELSE FirstKick(board, rotated, getWallKicks(piece, direction), 1)

placePiece(board, piece) ==
    [by \in 1..Len(board) |-> [bx \in 1..Len(board[by]) |->
        LET dx == (bx - 1) - piece.gridX
            dy == (by - 1) - piece.gridY
        IN  IF /\ dy >= 0 /\ dy < Len(piece.shape)
               /\ dx >= 0 /\ dx < Len(piece.shape[dy + 1])
               /\ ShapeCell(piece.shape, dx, dy) # 0
               /\ (by - 1) >= 0 /\ (by - 1) < 20 /\ (bx - 1) >= 0 /\ (bx - 1) < 10
            THEN piece.color
            ELSE board[by][bx]]]

RowFull(row) == \A x \in 1..Len(row) : row[x] # Null

\* board.reduce(...): walks the rows by ascending index and pushes the index
\* of every full row.
RECURSIVE ClearedFrom(_, _, _)
ClearedFrom(board, index, cleared) ==
    IF index >= Len(board) THEN cleared
    ELSE ClearedFrom(board, index + 1,
                     IF RowFull(board[index + 1]) THEN Append(cleared, index)
                     ELSE cleared)

\* findClearedLines that collects the full rows from the bottom row up.
findClearedLinesBottomUp(board) ==
    LET up == ClearedFrom(board, 0, << >>)
    IN  [i \in 1..Len(up) |-> up[Len(up) + 1 - i]]

findClearedLines(board) == ClearedFrom(board, 0, << >>)

Includes(seq, v) == \E i \in 1..Len(seq) : seq[i] = v

\* board.filter((row, index) => !lines.includes(index))
RECURSIVE FilterRows(_, _, _)
FilterRows(board, lines, index) ==
    IF index >= Len(board) THEN << >>
    ELSE IF Includes(lines, index)
         THEN FilterRows(board, lines, index + 1)
         ELSE << board[index + 1] >> \o FilterRows(board, lines, index + 1)

EmptyRow == [x \in 1..BoardWidth |-> Null]

\* while (newBoard.length < 20) newBoard.unshift(emptyRow)
RECURSIVE UnshiftEmptyRows(_)
UnshiftEmptyRows(newBoard) ==
    IF Len(newBoard) < 20 THEN UnshiftEmptyRows(<< EmptyRow >> \o newBoard)
    ELSE newBoard

\* removeClearedLines that adds the empty rows below the kept rows.
removeClearedLinesPush(board, lines) ==
    LET kept == FilterRows(board, lines, 0)
    IN  kept \o [i \in 1..(20 - Len(kept)) |-> EmptyRow]

\* removeClearedLines without the loop that adds empty rows.
removeClearedLinesNoRefill(board, lines) == FilterRows(board, lines, 0)

removeClearedLines(board, lines) == UnshiftEmptyRows(FilterRows(board, lines, 0))

canSpawn(board, piece) == canPieceFitAt(board, piece, piece.gridX, piece.gridY)

(***************************************************************************)
(* random.js: linear congruential generator                                *)
(*   state = (state * 1664525 + 1013904223) % 4294967296                   *)
(* The state is <<hi, lo>> with state = hi * 65536 + lo.                   *)
(***************************************************************************)
LcgMultiplier == 1664525
LcgIncrement == 1013904223
Limb == 65536

createRNG(seed) == << seed \div Limb, seed % Limb >>

\* rng.next(): the new internal state (the value returned is state / 2^32).
rngNext(rng) ==
    LET aHi == LcgMultiplier \div Limb
        aLo == LcgMultiplier % Limb
        cHi == LcgIncrement \div Limb
        cLo == LcgIncrement % Limb
        low == rng[2] * aLo + cLo
        high == rng[1] * aLo + rng[2] * aHi + cHi + (low \div Limb)
    IN  << high % Limb, low % Limb >>

\* rng.next() < 0.07, on the state just produced:
\* state / 2^32 < 0.07  <=>  state <= 300647710 = 4587 * 65536 + 34078.
BelowFloatChance(rng) ==
    rng[1] < 4587 \/ (rng[1] = 4587 /\ rng[2] <= 34078)

\* Math.floor(rng.next() * length), on the state just produced.
ScaledIndex(rng, length) ==
    (rng[1] * length + ((rng[2] * length) \div Limb)) \div Limb

(***************************************************************************)
(* Strings as tuples of character codes                                    *)
(***************************************************************************)
RECURSIVE DigitsOf(_)
DigitsOf(n) ==
    IF n < 10 THEN << 48 + n >>
    ELSE Append(DigitsOf(n \div 10), 48 + (n % 10))

\* `${n}` for an integer n
NumberToString(n) == IF n < 0 THEN << 45 >> \o DigitsOf(0 - n) ELSE DigitsOf(n)

HexDigit(d) == IF d < 10 THEN 48 + d ELSE 87 + d

RECURSIVE HexOf(_)
HexOf(n) ==
    IF n < 16 THEN << HexDigit(n) >>
    ELSE Append(HexOf(n \div 16), HexDigit(n % 16))

HexOf4(n) ==
    << HexDigit(n \div 4096), HexDigit((n \div 256) % 16),
       HexDigit((n \div 16) % 16), HexDigit(n % 16) >>

\* The character codes of the event type tags (SCORE_EVENTS).
TypeChars(type) ==
    CASE type = "SOFT_DROP" -> <<83, 79, 70, 84, 95, 68, 82, 79, 80>>
      [] type = "HARD_DROP" -> <<72, 65, 82, 68, 95, 68, 82, 79, 80>>
      [] type = "LINE_CLEAR" -> <<76, 73, 78, 69, 95, 67, 76, 69, 65, 82>>
      [] type = "SPIN_BONUS" -> <<83, 80, 73, 78, 95, 66, 79, 78, 85, 83>>
      [] type = "COMBO" -> <<67, 79, 77, 66, 79>>
      [] type = "BACK_TO_BACK" -> <<66, 65, 67, 75, 95, 84, 79, 95, 66, 65, 67, 75>>
      [] type = "PERFECT_CLEAR" -> <<80, 69, 82, 70, 69, 67, 84, 95, 67, 76, 69, 65, 82>>
      [] type = "LEVEL_BONUS" -> <<76, 69, 86, 69, 76, 95, 66, 79, 78, 85, 83>>

\* The metadata object {}
EmptyObject == [k \in {} |-> 0]

\* JSON.stringify(metadata) for the metadata objects the engine builds:
\* {rows}, {multiplier}, {combo}, {} and {lines, spinBonus, level}.
JSONStringify(metadata) ==
    CASE DOMAIN metadata = {"rows"} ->
            <<123, 34, 114, 111, 119, 115, 34, 58>>
            \o NumberToString(metadata.rows) \o <<125>>
      [] DOMAIN metadata = {"multiplier"} ->
            <<123, 34, 109, 117, 108, 116, 105, 112, 108, 105, 101, 114, 34, 58>>
            \o NumberToString(metadata.multiplier) \o <<125>>
      [] DOMAIN metadata = {"combo"} ->
            <<123, 34, 99, 111, 109, 98, 111, 34, 58>>
            \o NumberToString(metadata.combo) \o <<125>>
      [] DOMAIN metadata = {"lines", "spinBonus", "level"} ->
            <<123, 34, 108, 105, 110, 101, 115, 34, 58>>
            \o NumberToString(metadata.lines)
            \o <<44, 34, 115, 112, 105, 110, 66, 111, 110, 117, 115, 34, 58>>
            \o (IF metadata.spinBonus THEN <<116, 114, 117, 101>>
                ELSE <<102, 97, 108, 115, 101>>)
            \o <<44, 34, 108, 101, 118, 101, 108, 34, 58>>
            \o NumberToString(metadata.level) \o <<125>>
      [] OTHER -> <<123, 125>>

(***************************************************************************)
(* scoring-engine.js: hash utilities                                       *)
(***************************************************************************)
\* One round of the loop of simpleHash on the 32-bit accumulator <<hi, lo>>:
\*   hash = ((hash << 5) - hash) + char;  hash = hash & hash
\* i.e. hash = (31 * hash + char) mod 2^32, read as a signed 32-bit integer.
HashStep(hash, char) ==
    LET low == hash[2] * 31 + char
        high == hash[1] * 31 + (low \div Limb)
    IN  << high % Limb, low % Limb >>

\* The loop of simpleHash over str[from..to], left to right, starting from
\* the accumulator `hash`.  The range is split in two so that the depth of
\* the evaluation is logarithmic in the length; the characters are still
\* folded in index order.
RECURSIVE HashLoop(_, _, _, _)
HashLoop(str, from, to, hash) ==
    IF from > to THEN hash
    ELSE IF from = to THEN HashStep(hash, str[from])
    ELSE LET mid == (from + to) \div 2
             left == HashLoop(str, from, mid, hash)
         IN  IF left[1] >= 0 THEN HashLoop(str, mid + 1, to, left) ELSE left

\* Math.abs(hash) of the signed reading of <<hi, lo>>
AbsInt32(hash) ==
    IF hash[1] < 32768 THEN hash
    ELSE IF hash[2] = 0 THEN << Limb - hash[1], 0 >>
    ELSE << Limb - 1 - hash[1], Limb - hash[2] >>

\* n.toString(16)
ToHexString(hash) ==
    IF hash[1] = 0 THEN HexOf(hash[2])
    ELSE HexOf(hash[1]) \o HexOf4(hash[2])

simpleHash(str) == ToHexString(AbsInt32(HashLoop(str, 1, Len(str), << 0, 0 >>)))

\* `${prevHash}|${event.frame}|${event.type}|${event.points}|${JSON...}`
hashEvent(event, prevHash) ==
    simpleHash(prevHash \o <<124>> \o NumberToString(event.frame)
               \o <<124>> \o TypeChars(event.type)
               \o <<124>> \o NumberToString(event.points)
               \o <<124>> \o JSONStringify(event.metadata))

\* The chain root "0"
ChainRoot == << 48 >>

(***************************************************************************)
(* scoring-engine.js: class ScoringEngine                                  *)
(* The object is a record; a method that mutates it returns the new record.*)
(* The `timestamp` of a score event (wall clock) takes no part in any hash *)
(* and is not kept.                                                        *)
(***************************************************************************)
\* replayData.startTime: << >> for null, << t >> once initializeGame has
\* stored the clock value t.
NoStartTime == << >>

\* Date.now() - this.replayData.startTime, with `now` the milliseconds on
\* the clock since the session began.  null counts as 0 in the
\* subtraction, so while startTime is null the result is the time since
\* 1970: the epoch time at which the session began, plus `now`.
ClockReading(engine, now) ==
    IF engine.startTime = NoStartTime
    THEN [sinceEpoch |-> TRUE, ms |-> now]
    ELSE [sinceEpoch |-> FALSE, ms |-> now - engine.startTime[1]]

ZeroReading == [sinceEpoch |-> FALSE, ms |-> 0]

\* reading > boundMs.  The epoch time of any session is beyond every bound
\* the code compares a reading with.
ReadingExceeds(reading, boundMs) ==
    reading.sinceEpoch \/ reading.ms > boundMs

\* stats.pps is kept as the quotient it was computed from: `pieces` per
\* `over` (a reading that is positive).  pps < limit:
PpsBelow(pps, limit) ==
    \/ pps.pieces = 0
    \/ pps.over.sinceEpoch
    \/ pps.pieces * 1000 < limit * pps.over.ms

NewScoringEngine ==
    [scoreLedger |-> << >>,
     stats |-> [piecesPlaced |-> 0, linesCleared |-> 0, spinBonuses |-> 0,
                perfectClears |-> 0, maxCombo |-> 0,
                totalTime |-> ZeroReading,
                pps |-> [pieces |-> 0, over |-> ZeroReading]],
     startTime |-> NoStartTime,
     inputs |-> << >>,
     stateSnapshots |-> << >>,
     finalScore |-> 0,
     verified |-> FALSE,
     frameCount |-> 0]

\* addStateSnapshot(state): `state.frame || this.frameCount`; the board hash
\* and the timestamp of a snapshot are read by nothing and are not kept.
addStateSnapshot(engine, frame, score) ==
    [engine EXCEPT !.stateSnapshots =
        Append(@, [frame |-> IF frame # 0 THEN frame ELSE engine.frameCount,
                   score |-> score])]

\* initializeGame(seed, mode) at clock value `now`
initializeGame(engine, now) ==
    addStateSnapshot([NewScoringEngine EXCEPT !.startTime = << now >>], 0, 0)

\* recordInput(action, frame) at clock value `now`
recordInput(engine, action, frame, now) ==
    [engine EXCEPT !.inputs =
        Append(@, [frame |-> IF frame # 0 THEN frame ELSE engine.frameCount,
                   action |-> action,
                   timestamp |-> ClockReading(engine, now)])]

updateFrame(engine) == [engine EXCEPT !.frameCount = @ + 1]

\* addScoreEvent that chains every event from the root.
addScoreEventFromRoot(engine, type, points, metadata) ==
    LET event == [frame |-> engine.frameCount, type |-> type,
                  points |-> points, metadata |-> metadata]
        hashed == [frame |-> event.frame, type |-> event.type,
                   points |-> event.points, metadata |-> event.metadata,
                   hash |-> hashEvent(event, ChainRoot)]
    IN  [engine EXCEPT !.scoreLedger = Append(engine.scoreLedger, hashed)]

addScoreEvent(engine, type, points, metadata) ==
    LET event == [frame |-> engine.frameCount, type |-> type,
                  points |-> points, metadata |-> metadata]
        prevHash == IF Len(engine.scoreLedger) > 0
                    THEN engine.scoreLedger[Len(engine.scoreLedger)].hash
                    ELSE ChainRoot
        hashed == [frame |-> event.frame, type |-> event.type,
                   points |-> event.points, metadata |-> event.metadata,
                   hash |-> hashEvent(event, prevHash)]
    IN  [engine EXCEPT !.scoreLedger = Append(engine.scoreLedger, hashed)]

\* Both return the engine after the call and the points awarded.
scoreSoftDrop(engine, rows) ==
    LET points == rows * 1
    IN  [engine |-> addScoreEvent(engine, "SOFT_DROP", points, [rows |-> rows]),
         points |-> points]

\* scoreHardDrop that returns the points without logging them
scoreHardDropUnlogged(engine, rows) ==
    [engine |-> engine, points |-> rows * 2]

scoreHardDrop(engine, rows) ==
    LET points == rows * 2
    IN  [engine |-> addScoreEvent(engine, "HARD_DROP", points, [rows |-> rows]),
         points |-> points]

\* state.backToBackCounter: no state built by the engine has the field
\* (undefined > 0 is false); a caller of scoreLineClears may supply it.
BackToBackCounterOf(state) ==
    IF "backToBackCounter" \in DOMAIN state THEN state.backToBackCounter ELSE 0

\* The four diagonal corners
SPIN_CORNERS == << [dx |-> -1, dy |-> -1], [dx |-> 1, dy |-> -1],
                   [dx |-> -1, dy |-> 1], [dx |-> 1, dy |-> 1] >>

detectSpinBonus(state, lastMove) ==
    IF state.current.type = Null \/ state.current.type # "T" THEN FALSE
    ELSE IF lastMove.type = Null \/ lastMove.type # "ROTATE" THEN FALSE
    ELSE LET centerX == state.current.gridX + 1
             centerY == state.current.gridY + 1
             filled(corner) ==
                 LET x == centerX + corner.dx
                     y == centerY + corner.dy
                 IN  IF x < 0 \/ x >= 10 \/ y >= 20 THEN TRUE
                     ELSE y >= 0 /\ BoardCell(state.board, x, y) # Null
             filledCorners ==
                 Cardinality({c \in 1..Len(SPIN_CORNERS) : filled(SPIN_CORNERS[c])})
         IN  filledCorners >= 3

isPerfectClear(board) ==
    \A y \in 1..Len(board) : \A x \in 1..Len(board[y]) : board[y][x] = Null

SpinTable == << 400, 800, 1200, 1600 >>
LineTable == << 0, 100, 300, 500, 800 >>
PerfectTable == << 0, 800, 1200, 1800, 2000 >>

\* scoreLineClears(state, linesCleared, lastMove), called with
\* linesCleared >= 1.  Returns the engine after the call and the aggregate.
scoreLineClears(engine, state, linesCleared, lastMove) ==
    LET level == state.level
        hasSpinBonus == detectSpinBonus(state, lastMove)
        baseScore == IF hasSpinBonus
                     THEN SpinTable[Min(linesCleared - 1, 3) + 1]
                     ELSE LineTable[Min(linesCleared, 4) + 1]
        e1 == IF hasSpinBonus
              THEN [engine EXCEPT !.stats.spinBonuses = @ + 1]
              ELSE engine
        isDifficult == linesCleared = 4 \/ hasSpinBonus
        hasB2B == isDifficult /\ BackToBackCounterOf(state) > 0
        b2bBonus == (baseScore \div 2) * level
        e2 == IF hasB2B
              THEN addScoreEvent(e1, "BACK_TO_BACK", b2bBonus,
                                 [multiplier |-> BackToBackCounterOf(state)])
              ELSE e1
        hasCombo == state.combo > 1
        comboBonus == 50 * state.combo * level
        e3 == IF hasCombo
              THEN [addScoreEvent(e2, "COMBO", comboBonus, [combo |-> state.combo])
                       EXCEPT !.stats.maxCombo = Max(@, state.combo)]
              ELSE e2
        hasPerfect == isPerfectClear(state.board)
        perfectBonus == PerfectTable[Min(linesCleared, 4) + 1] * level
        e4 == IF hasPerfect
              THEN [addScoreEvent(e3, "PERFECT_CLEAR", perfectBonus, EmptyObject)
                       EXCEPT !.stats.perfectClears = @ + 1]
              ELSE e3
        e5 == addScoreEvent(e4, "LINE_CLEAR", baseScore * level,
                            [lines |-> linesCleared, spinBonus |-> hasSpinBonus,
                             level |-> level])
    IN  [engine |-> [e5 EXCEPT !.stats.linesCleared = @ + linesCleared],
         points |-> baseScore * level
                    + (IF hasB2B THEN b2bBonus ELSE 0)
                    + (IF hasCombo THEN comboBonus ELSE 0)
                    + (IF hasPerfect THEN perfectBonus ELSE 0)]

\* validateScoreLedger over a ledger (the engine's, or a tampered copy)
RECURSIVE ValidateFrom(_, _, _)
ValidateFrom(ledger, i, prevHash) ==
    IF i > Len(ledger) THEN TRUE
    ELSE IF ledger[i].hash # hashEvent(ledger[i], prevHash) THEN FALSE
    ELSE ValidateFrom(ledger, i + 1, ledger[i].hash)

validateScoreLedger(ledger) == ValidateFrom(ledger, 1, ChainRoot)

\* updateStats(state) at clock value `now`: the piece count, pieces per
\* second and total time.  apm and efficiency are read by nothing and are
\* not kept.
updateStats(engine, state, now) ==
    LET elapsed == ClockReading(engine, now)
    IN  [engine EXCEPT
            !.stats.piecesPlaced = state.pieces,
            !.stats.pps = IF ReadingExceeds(elapsed, 0)
                          THEN [pieces |-> state.pieces, over |-> elapsed]
                          ELSE @,
            !.stats.totalTime = elapsed]

\* The sum of f over 1..n
RECURSIVE SumTo(_, _)
SumTo(f, n) == IF n = 0 THEN 0 ELSE SumTo(f, n - 1) + f[n]

\* checkTimingVariance(): with n gaps t between successive inputs,
\*   avg = sum(t) / n,  variance = sum((t - avg)^2) / n,  variance > 10
\* which, multiplied by n^2, is  n * sum(t^2) - sum(t)^2 > 10 * n^2.
checkTimingVariance(engine) ==
    IF Len(engine.inputs) < 10 THEN TRUE
    ELSE LET n == Len(engine.inputs) - 1
             timings == [i \in 1..n |-> engine.inputs[i + 1].timestamp.ms
                                         - engine.inputs[i].timestamp.ms]
             squares == [i \in 1..n |-> timings[i] * timings[i]]
         IN  n * SumTo(squares, n) - SumTo(timings, n) * SumTo(timings, n)
                > 10 * n * n

\* validateSnapshots(): the loop from the snapshot at index i on
RECURSIVE SnapshotsFrom(_, _, _, _)
SnapshotsFrom(snapshots, i, prevFrame, prevScore) ==
    IF i > Len(snapshots) THEN TRUE
    ELSE IF snapshots[i].frame <= prevFrame THEN FALSE
    ELSE IF snapshots[i].score < prevScore THEN FALSE
    ELSE SnapshotsFrom(snapshots, i + 1, snapshots[i].frame, snapshots[i].score)

validateSnapshots(engine) == SnapshotsFrom(engine.stateSnapshots, 1, -1, -1)

\* validateReplay without the pieces-per-second check
validateReplayAnyRate(engine) ==
    /\ ReadingExceeds(engine.stats.totalTime, 10 * 1000)
    /\ checkTimingVariance(engine)
    /\ validateScoreLedger(engine.scoreLedger)
    /\ validateSnapshots(engine)

\* validateReplay()
validateReplay(engine) ==
    LET minimumTime == ReadingExceeds(engine.stats.totalTime, 10 * 1000)
        reasonablePPS == PpsBelow(engine.stats.pps, 5)
        hasTimingVariance == checkTimingVariance(engine)
        ledgerValid == validateScoreLedger(engine.scoreLedger)
        snapshotsValid == validateSnapshots(engine)
    IN  /\ minimumTime
        /\ reasonablePPS
        /\ hasTimingVariance
        /\ ledgerValid
        /\ snapshotsValid

\* finalizeGame that takes the statistics but marks nothing
finalizeGameUnmarked(engine, finalState, now) ==
    updateStats(engine, finalState, now)

\* finalizeGame(finalState) at clock value `now`.  The object it returns,
\* with canSubmitToTournament: this.validateReplay(), is computed from the
\* engine it leaves.
finalizeGame(engine, finalState, now) ==
    [updateStats(engine, finalState, now) EXCEPT
        !.finalScore = finalState.score,
        !.verified = TRUE]

(***************************************************************************)
(* game-state.js: mode, initial state, piece selection                     *)
(***************************************************************************)
\* GAME_MODES.neonDrop.gravity(level)
Gravity(level) == Max(50, 1000 - (level - 1) * 50)

NoMove == [type |-> Null]
NoEngine == [absent |-> TRUE]
NoRng == << >>

\* createInitialState().  The fields read only by the renderer (particles,
\* shadowCache, highScore) are not kept; `mode` is the constant neonDrop.
\* startTime is Null or "started": every read of the wall clock is an input
\* of the step that reads it (elapsedMs = Date.now() - startTime).
createInitialState ==
    [board |-> createEmptyBoard,
     current |-> NoPiece,
     next |-> NoPiece,
     hold |-> NoPiece,
     canHold |-> TRUE,
     deathPiece |-> NoPiece,
     phase |-> "MENU",
     score |-> 0,
     lines |-> 0,
     level |-> 1,
     combo |-> 0,
     lockTimer |-> 0,
     totalLockTime |-> 0,
     clearTimer |-> 0,
     gravityAccumulator |-> 0,
     pieces |-> 0,
     startTime |-> Null,
     generation |-> 0,
     lastMove |-> NoMove,
     clearingLines |-> << >>,
     rng |-> NoRng,
     scoringEngine |-> NoEngine]

PIECE_PROGRESSION ==
    << [skill |-> 0, pieces |-> << "I", "O", "T", "L", "FLOAT" >>],
       [skill |-> 20, pieces |-> << "J" >>],
       [skill |-> 60, pieces |-> << "S", "Z" >>],
       [skill |-> 150, pieces |-> << "PLUS" >>],
       [skill |-> 300, pieces |-> << "U", "DOT" >> ] >>

\* calculateSkillScore(state), with elapsedMs = Date.now() - state.startTime:
\*   floor(lines*2 + pps*50 + efficiency*100 + combo*20)
\*   pps = pieces / max(1, elapsedMs/1000), efficiency = lines / pieces
calculateSkillScore(state, elapsedMs) ==
    IF state.startTime = Null \/ state.pieces = 0 THEN 0
    ELSE LET el == Max(1000, elapsedMs)
         IN  state.lines * 2 + state.combo * 20
             + ((50000 * state.pieces * state.pieces + 100 * state.lines * el)
                \div (el * state.pieces))

RECURSIVE TiersFrom(_, _)
TiersFrom(skillScore, t) ==
    IF t > Len(PIECE_PROGRESSION) THEN << >>
    ELSE (IF skillScore >= PIECE_PROGRESSION[t].skill
          THEN PIECE_PROGRESSION[t].pieces ELSE << >>)
         \o TiersFrom(skillScore, t + 1)

\* mode.progressive is true for neonDrop
getAvailablePieces(state, elapsedMs) ==
    TiersFrom(calculateSkillScore(state, elapsedMs), 1)

\* PIECE_WEIGHTS[piece] * 100, floored
WeightCount(piece) == IF piece \in {"PLUS", "U", "DOT"} THEN 50 ELSE 100

RECURSIVE WeightedFrom(_, _)
WeightedFrom(availablePieces, i) ==
    IF i > Len(availablePieces) THEN << >>
    ELSE (IF availablePieces[i] = "FLOAT" THEN << >>
          ELSE [k \in 1..WeightCount(availablePieces[i]) |-> availablePieces[i]])
         \o WeightedFrom(availablePieces, i + 1)

\* Random.choice(array, rng) on the generator state reached by rng.next()
choice(array, rng) == array[ScaledIndex(rng, Len(array)) + 1]

\* selectWeightedPiece: the kind and the generator after the draws
selectWeightedPiece(availablePieces, rng) ==
    LET r1 == rngNext(rng)
        r2 == rngNext(r1)
    IN  IF Includes(availablePieces, "FLOAT") /\ BelowFloatChance(r1)
        THEN [type |-> "FLOAT", rng |-> r1]
        ELSE IF Includes(availablePieces, "FLOAT")
        THEN [type |-> choice(WeightedFrom(availablePieces, 1), r2), rng |-> r2]
        ELSE [type |-> choice(WeightedFrom(availablePieces, 1), r1), rng |-> r1]

\* getNextPiece(state): the piece and the generator after the draws.  It is
\* called only with a generator attached and tier 0 is never empty, so
\* neither of its errors is raised.
getNextPiece(state, elapsedMs) ==
    LET sel == selectWeightedPiece(getAvailablePieces(state, elapsedMs), state.rng)
    IN  [piece |-> createPiece(sel.type), rng |-> sel.rng]

(***************************************************************************)
(* game-engine.js                                                          *)
(* Every operator that may read the wall clock takes elapsedMs, the       *)
(* reading Date.now() - state.startTime of that call.                      *)
(***************************************************************************)
\* gameOver that leaves the piece that could not be placed
gameOverKeepsPiece(state, elapsedMs) ==
    [state EXCEPT !.scoringEngine = IF state.scoringEngine # NoEngine
                                    THEN finalizeGame(state.scoringEngine, state,
                                                      elapsedMs)
                                    ELSE state.scoringEngine,
                  !.phase = "GAME_OVER"]

\* Game over: finalise the ledger, clear current and next
gameOver(state, elapsedMs) ==
    [state EXCEPT !.scoringEngine = IF state.scoringEngine # NoEngine
                                    THEN finalizeGame(state.scoringEngine, state,
                                                      elapsedMs)
                                    ELSE state.scoringEngine,
                  !.phase = "GAME_OVER",
                  !.current = NoPiece,
                  !.next = NoPiece]

spawnNextPiece(state, elapsedMs) ==
    IF state.phase = "GAME_OVER" THEN state
    ELSE LET newPiece == [state.next EXCEPT !.generation = state.generation + 1,
                                            !.upMovesUsed = 0]
         IN  IF ~canSpawn(state.board, newPiece) THEN gameOver(state, elapsedMs)
             ELSE LET drawn == getNextPiece(state, elapsedMs)
                  IN  [state EXCEPT !.current = newPiece,
                                    !.next = drawn.piece,
                                    !.rng = drawn.rng,
                                    !.pieces = state.pieces + 1,
                                    !.phase = "FALLING",
                                    !.generation = state.generation + 1]

\* lockPiece ending the game only for a piece two rows above the board
lockPieceBelowTop(state, elapsedMs) ==
    IF state.current.gridY < -1
    THEN gameOver([state EXCEPT !.board = placePiece(state.board, state.current),
                                !.deathPiece = state.current],
                  elapsedMs)
    ELSE LET newBoard == placePiece(state.board, state.current)
             clearedLines == findClearedLines(newBoard)
             engine == IF state.scoringEngine # NoEngine
                       THEN updateStats(state.scoringEngine,
                                        [state EXCEPT !.pieces = state.pieces + 1],
                                        elapsedMs)
                       ELSE state.scoringEngine
         IN  IF Len(clearedLines) > 0
             THEN [state EXCEPT !.scoringEngine = engine,
                                !.board = newBoard,
                                !.current = NoPiece,
                                !.phase = "CLEARING",
                                !.clearTimer = 0,
                                !.clearingLines = clearedLines,
                                !.canHold = TRUE]
             ELSE spawnNextPiece([state EXCEPT !.scoringEngine = engine,
                                               !.board = newBoard,
                                               !.current = NoPiece,
                                               !.canHold = TRUE,
                                               !.pieces = state.pieces + 1],
                                 elapsedMs)

lockPiece(state, elapsedMs) ==
    IF state.current.gridY < 0
    THEN gameOver([state EXCEPT !.board = placePiece(state.board, state.current),
                                !.deathPiece = state.current],
                  elapsedMs)
    ELSE LET newBoard == placePiece(state.board, state.current)
             clearedLines == findClearedLines(newBoard)
             engine == IF state.scoringEngine # NoEngine
                       THEN updateStats(state.scoringEngine,
                                        [state EXCEPT !.pieces = state.pieces + 1],
                                        elapsedMs)
                       ELSE state.scoringEngine
         IN  IF Len(clearedLines) > 0
             THEN [state EXCEPT !.scoringEngine = engine,
                                !.board = newBoard,
                                !.current = NoPiece,
                                !.phase = "CLEARING",
                                !.clearTimer = 0,
                                !.clearingLines = clearedLines,
                                !.canHold = TRUE]
             ELSE spawnNextPiece([state EXCEPT !.scoringEngine = engine,
                                               !.board = newBoard,
                                               !.current = NoPiece,
                                               !.canHold = TRUE,
                                               !.pieces = state.pieces + 1],
                                 elapsedMs)

\* finishClearing that leaves the cleared rows on the board
finishClearingKeepsRows(state, elapsedMs) ==
    LET newBoard == state.board
        linesCleared == Len(state.clearingLines)
        scored == scoreLineClears(state.scoringEngine, state, linesCleared,
                                  state.lastMove)
        newState == [state EXCEPT !.board = newBoard,
                                  !.clearingLines = << >>,
                                  !.lines = state.lines + linesCleared,
                                  !.level = ((state.lines + linesCleared) \div 10) + 1]
    IN  IF state.scoringEngine # NoEngine
        THEN spawnNextPiece([newState EXCEPT
                                 !.scoringEngine = scored.engine,
                                 !.score = state.score + scored.points,
                                 !.combo = IF linesCleared > 0 THEN state.combo + 1
                                           ELSE 0],
                            elapsedMs)
        ELSE spawnNextPiece(newState, elapsedMs)

\* finishClearing that leaves the level as it was
finishClearingSameLevel(state, elapsedMs) ==
    LET newBoard == removeClearedLines(state.board, state.clearingLines)
        linesCleared == Len(state.clearingLines)
        scored == scoreLineClears(state.scoringEngine, state, linesCleared,
                                  state.lastMove)
        newState == [state EXCEPT !.board = newBoard,
                                  !.clearingLines = << >>,
                                  !.lines = state.lines + linesCleared]
    IN  IF state.scoringEngine # NoEngine
        THEN spawnNextPiece([newState EXCEPT
                                 !.scoringEngine = scored.engine,
                                 !.score = state.score + scored.points,
                                 !.combo = IF linesCleared > 0 THEN state.combo + 1
                                           ELSE 0],
                            elapsedMs)
        ELSE spawnNextPiece(newState, elapsedMs)

finishClearing(state, elapsedMs) ==
    LET newBoard == removeClearedLines(state.board, state.clearingLines)
        linesCleared == Len(state.clearingLines)
        scored == scoreLineClears(state.scoringEngine, state, linesCleared,
                                  state.lastMove)
        newState == [state EXCEPT !.board = newBoard,
                                  !.clearingLines = << >>,
                                  !.lines = state.lines + linesCleared,
                                  !.level = ((state.lines + linesCleared) \div 10) + 1]
    IN  IF state.scoringEngine # NoEngine
        THEN spawnNextPiece([newState EXCEPT
                                 !.scoringEngine = scored.engine,
                                 !.score = state.score + scored.points,
                                 !.combo = IF linesCleared > 0 THEN state.combo + 1
                                           ELSE 0],
                            elapsedMs)
        ELSE spawnNextPiece(newState, elapsedMs)

\* processFalling carrying the time beyond the interval into the accumulator
processFallingCarry(state, deltaTime) ==
    IF state.current = NoPiece THEN [state EXCEPT !.phase = "GAME_OVER"]
    ELSE LET newAccumulator == state.gravityAccumulator + deltaTime
             gravityDelay == Gravity(state.level)
         IN  IF newAccumulator >= gravityDelay
             THEN IF canPieceFitAt(state.board, state.current,
                                   state.current.gridX, state.current.gridY + 1)
                  THEN [state EXCEPT
                           !.current = [state.current EXCEPT !.gridY = @ + 1],
                           !.gravityAccumulator = newAccumulator - gravityDelay]
                  ELSE [state EXCEPT !.phase = "LOCKING",
                                     !.lockTimer = 0,
                                     !.totalLockTime = 0,
                                     !.gravityAccumulator = 0]
             ELSE [state EXCEPT !.gravityAccumulator = newAccumulator]

processFalling(state, deltaTime) ==
    IF state.current = NoPiece THEN [state EXCEPT !.phase = "GAME_OVER"]
    ELSE LET newAccumulator == state.gravityAccumulator + deltaTime
             gravityDelay == Gravity(state.level)
         IN  IF newAccumulator >= gravityDelay
             THEN IF canPieceFitAt(state.board, state.current,
                                   state.current.gridX, state.current.gridY + 1)
                  THEN LET newPiece == [state.current EXCEPT !.gridY = @ + 1]
                           shadowY == calculateShadow(state.board, newPiece)
                           justHitShadow == newPiece.gridY = shadowY
                                            /\ state.current.gridY # shadowY
                       IN  [state EXCEPT
                               !.current = newPiece,
                               !.gravityAccumulator = 0,
                               !.lastMove = IF justHitShadow
                                            THEN [type |-> "GRAVITY_HIT",
                                                  hitBottom |-> TRUE]
                                            ELSE state.lastMove]
                  ELSE [state EXCEPT !.phase = "LOCKING",
                                     !.lockTimer = 0,
                                     !.totalLockTime = 0,
                                     !.gravityAccumulator = 0]
             ELSE [state EXCEPT !.gravityAccumulator = newAccumulator]

\* processLocking without the test of the maximum lock time
processLockingNoCeiling(state, deltaTime, elapsedMs) ==
    LET newLockTimer == state.lockTimer + deltaTime
        newTotalLockTime == state.totalLockTime + deltaTime
        lockDelay == IF state.current.type = "FLOAT"
                     THEN (LockDelay * 12) \div 10 ELSE LockDelay
    IN  IF canPieceFitAt(state.board, state.current,
                         state.current.gridX, state.current.gridY + 1)
        THEN [state EXCEPT !.phase = "FALLING", !.lockTimer = 0,
                           !.totalLockTime = 0]
        ELSE IF newLockTimer >= lockDelay THEN lockPiece(state, elapsedMs)
        ELSE [state EXCEPT !.lockTimer = newLockTimer,
                           !.totalLockTime = newTotalLockTime]

processLocking(state, deltaTime, elapsedMs) ==
    LET newLockTimer == state.lockTimer + deltaTime
        newTotalLockTime == state.totalLockTime + deltaTime
        lockDelay == IF state.current.type = "FLOAT"
                     THEN (LockDelay * 12) \div 10 ELSE LockDelay
    IN  IF canPieceFitAt(state.board, state.current,
                         state.current.gridX, state.current.gridY + 1)
        THEN [state EXCEPT !.phase = "FALLING", !.lockTimer = 0,
                           !.totalLockTime = 0]
        ELSE IF newTotalLockTime >= MaxLockTime THEN lockPiece(state, elapsedMs)
        ELSE IF newLockTimer >= lockDelay THEN lockPiece(state, elapsedMs)
        ELSE [state EXCEPT !.lockTimer = newLockTimer,
                           !.totalLockTime = newTotalLockTime]

\* processClearing finishing only once the timer has passed the duration
processClearingLate(state, deltaTime, elapsedMs) ==
    LET newClearTimer == state.clearTimer + deltaTime
    IN  IF newClearTimer > ClearDelay THEN finishClearing(state, elapsedMs)
        ELSE [state EXCEPT !.clearTimer = newClearTimer]

processClearing(state, deltaTime, elapsedMs) ==
    LET newClearTimer == state.clearTimer + deltaTime
    IN  IF newClearTimer >= ClearDelay THEN finishClearing(state, elapsedMs)
        ELSE [state EXCEPT !.clearTimer = newClearTimer]

\* tick with the paused phase left out of the early return: gravity keeps
\* running while the game is paused.
tickWhilePaused(state, deltaTime, elapsedMs) ==
    IF state.phase = "MENU" \/ state.phase = "GAME_OVER"
    THEN state
    ELSE CASE state.phase = "FALLING" \/ state.phase = "PAUSED" ->
                processFalling(state, deltaTime)
           [] state.phase = "LOCKING" -> processLocking(state, deltaTime, elapsedMs)
           [] state.phase = "CLEARING" -> processClearing(state, deltaTime, elapsedMs)
           [] OTHER -> state

tick(state, deltaTime, elapsedMs) ==
    IF state.phase = "MENU" \/ state.phase = "PAUSED" \/ state.phase = "GAME_OVER"
    THEN state
    ELSE CASE state.phase = "FALLING" -> processFalling(state, deltaTime)
           [] state.phase = "LOCKING" -> processLocking(state, deltaTime, elapsedMs)
           [] state.phase = "CLEARING" -> processClearing(state, deltaTime, elapsedMs)
           [] OTHER -> state

\* A handler either returns a state or raises; `state` is then the state the
\* caller keeps (main.js assigns this.state only from a returned value).
Returned(state) == [threw |-> "none", state |-> state]
Raised(error, state) == [threw |-> error, state |-> state]

\* executeMove(state, newX, newY, dx, dy).  The branch taken when the moved
\* piece can fall and the phase is LOCKING reads the identifier `piece`,
\* which is not bound in executeMove nor at module level: evaluating it
\* raises a ReferenceError before anything is returned.
executeMove(state, newX, newY, dx, dy) ==
    LET movedPiece ==
            [state.current EXCEPT
                !.gridX = newX,
                !.gridY = newY,
                !.upMovesUsed = IF state.current.type = "FLOAT" /\ dy < 0
                                THEN state.current.upMovesUsed + 1 ELSE @]
        canFall == canPieceFitAt(state.board, movedPiece,
                                 movedPiece.gridX, movedPiece.gridY + 1)
        s1 == [state EXCEPT
                  !.current = movedPiece,
                  !.lastMove = [type |-> "MOVE", dx |-> dx, dy |-> dy,
                                hitBottom |-> dy > 0 /\ ~canFall],
                  !.gravityAccumulator = IF dy # 0 THEN 0 ELSE @]
        s2 == IF ~canFall /\ state.phase = "FALLING"
              THEN [s1 EXCEPT !.phase = "LOCKING", !.lockTimer = 0]
              ELSE IF state.phase = "LOCKING"
              THEN [s1 EXCEPT !.lockTimer = 0]
              ELSE s1
        scored == scoreSoftDrop(state.scoringEngine, dy)
    IN  IF canFall /\ state.phase = "LOCKING"
        THEN Raised("ReferenceError", state)
        ELSE IF state.scoringEngine # NoEngine /\ dy > 0
        THEN Returned([s2 EXCEPT !.score = @ + scored.points,
                                 !.scoringEngine = scored.engine])
        ELSE Returned(s2)

\* move that places the piece at its target without testing the fit
moveUnchecked(state, dx, dy) ==
    executeMove(state, state.current.gridX + dx, state.current.gridY + dy, dx, dy)

move(state, dx, dy) ==
    LET piece == state.current
        targetX == piece.gridX + dx
        targetY == piece.gridY + dy
        altY == targetY + 1
    IN  IF canPieceFitAt(state.board, piece, targetX, targetY)
        THEN executeMove(state, targetX, targetY, dx, dy)
        ELSE IF /\ piece.type = "FLOAT" /\ dx # 0 /\ dy = 0
                /\ altY < 20
                /\ canPieceFitAt(state.board, piece, targetX, altY)
        THEN executeMove(state, targetX, altY, dx, 1)
        ELSE Returned([state EXCEPT
                          !.lastMove = [type |-> "MOVE", dx |-> dx, dy |-> dy,
                                        hitWall |-> dx # 0,
                                        hitFloor |-> dy > 0,
                                        hitCeiling |-> dy < 0]])

\* rotate that never returns a LOCKING piece to FALLING
rotateKeepsPhase(state, direction) ==
    LET result == tryRotation(state.board, state.current, direction)
        canFall == canPieceFitAt(state.board, result.piece,
                                 result.piece.gridX, result.piece.gridY + 1)
        s1 == [state EXCEPT !.current = result.piece,
                            !.lastMove = [type |-> "ROTATE",
                                          direction |-> direction]]
    IN  IF ~result.success THEN state
        ELSE IF ~canFall /\ state.phase = "FALLING"
        THEN [s1 EXCEPT !.phase = "LOCKING", !.lockTimer = 0]
        ELSE IF state.phase = "LOCKING"
        THEN [s1 EXCEPT !.lockTimer = 0]
        ELSE s1

rotate(state, direction) ==
    LET result == tryRotation(state.board, state.current, direction)
        canFall == canPieceFitAt(state.board, result.piece,
                                 result.piece.gridX, result.piece.gridY + 1)
        s1 == [state EXCEPT !.current = result.piece,
                            !.lastMove = [type |-> "ROTATE",
                                          direction |-> direction]]
    IN  IF ~result.success THEN state
        ELSE IF ~canFall /\ state.phase = "FALLING"
        THEN [s1 EXCEPT !.phase = "LOCKING", !.lockTimer = 0]
        ELSE IF canFall /\ state.phase = "LOCKING"
        THEN [s1 EXCEPT !.phase = "FALLING", !.lockTimer = 0]
        ELSE IF state.phase = "LOCKING"
        THEN [s1 EXCEPT !.lockTimer = 0]
        ELSE s1

\* hardDrop scoring the drop but locking the piece where it is
hardDropInPlace(state, elapsedMs) ==
    LET shadowY == calculateShadow(state.board, state.current)
        dropDistance == shadowY - state.current.gridY
        scored == scoreHardDrop(state.scoringEngine, dropDistance)
        s1 == [state EXCEPT !.lastMove = [type |-> "HARD_DROP"]]
        s2 == IF state.scoringEngine # NoEngine /\ dropDistance > 0
              THEN [s1 EXCEPT !.score = @ + scored.points,
                              !.scoringEngine = scored.engine]
              ELSE s1
    IN  lockPiece(s2, elapsedMs)

hardDrop(state, elapsedMs) ==
    LET shadowY == calculateShadow(state.board, state.current)
        dropDistance == shadowY - state.current.gridY
        scored == scoreHardDrop(state.scoringEngine, dropDistance)
        s1 == [state EXCEPT !.current.gridY = shadowY,
                            !.lastMove = [type |-> "HARD_DROP"]]
        s2 == IF state.scoringEngine # NoEngine /\ dropDistance > 0
              THEN [s1 EXCEPT !.score = @ + scored.points,
                              !.scoringEngine = scored.engine]
              ELSE s1
    IN  lockPiece(s2, elapsedMs)

\* tryHold leaving holding enabled
tryHoldAgain(state, elapsedMs) ==
    IF state.current = NoPiece \/ ~state.canHold THEN state
    ELSE LET held == state.current
             newCurrent == IF state.hold # NoPiece THEN state.hold ELSE state.next
             heldPiece == createPiece(held.type)
             activePiece == [createPiece(newCurrent.type) EXCEPT
                                !.generation = state.generation + 1,
                                !.upMovesUsed = 0]
             drawn == getNextPiece(state, elapsedMs)
         IN  [state EXCEPT
                 !.current = activePiece,
                 !.hold = heldPiece,
                 !.next = IF state.hold # NoPiece THEN state.next ELSE drawn.piece,
                 !.rng = IF state.hold # NoPiece THEN state.rng ELSE drawn.rng,
                 !.canHold = state.canHold,
                 !.phase = "FALLING",
                 !.generation = state.generation + 1]

tryHold(state, elapsedMs) ==
    IF state.current = NoPiece \/ ~state.canHold THEN state
    ELSE LET held == state.current
             newCurrent == IF state.hold # NoPiece THEN state.hold ELSE state.next
             heldPiece == createPiece(held.type)
             activePiece == [createPiece(newCurrent.type) EXCEPT
                                !.generation = state.generation + 1,
                                !.upMovesUsed = 0]
             drawn == getNextPiece(state, elapsedMs)
         IN  [state EXCEPT
                 !.current = activePiece,
                 !.hold = heldPiece,
                 !.next = IF state.hold # NoPiece THEN state.next ELSE drawn.piece,
                 !.rng = IF state.hold # NoPiece THEN state.rng ELSE drawn.rng,
                 !.canHold = FALSE,
                 !.phase = "FALLING",
                 !.generation = state.generation + 1]

\* handleInput without the phase test: input acts whenever a piece exists.
handleInputAnyPhase(state, action, elapsedMs) ==
    IF state.current = NoPiece THEN Returned(state)
    ELSE CASE action.type = "UP_PRESSED" ->
                IF state.current.type = "FLOAT"
                   /\ state.current.upMovesUsed < MaxUpMoves
                THEN move(state, 0, -1)
                ELSE Returned(rotate(state, 1))
           [] action.type = "MOVE" -> move(state, action.dx, action.dy)
           [] action.type = "ROTATE" -> Returned(rotate(state, action.direction))
           [] action.type = "HARD_DROP" -> Returned(hardDrop(state, elapsedMs))
           [] action.type = "HOLD" -> Returned(tryHold(state, elapsedMs))
           [] OTHER -> Returned(state)

\* handleInput(state, action); action is a record with a type and, by type,
\* dx, dy or direction.
handleInput(state, action, elapsedMs) ==
    IF state.phase # "FALLING" /\ state.phase # "LOCKING" THEN Returned(state)
    ELSE IF state.current = NoPiece THEN Returned(state)
    ELSE CASE action.type = "UP_PRESSED" ->
                IF state.current.type = "FLOAT"
                   /\ state.current.upMovesUsed < MaxUpMoves
                THEN move(state, 0, -1)
                ELSE Returned(rotate(state, 1))
           [] action.type = "MOVE" -> move(state, action.dx, action.dy)
           [] action.type = "ROTATE" -> Returned(rotate(state, action.direction))
           [] action.type = "HARD_DROP" -> Returned(hardDrop(state, elapsedMs))
           [] action.type = "HOLD" -> Returned(tryHold(state, elapsedMs))
           [] OTHER -> Returned(state)

\* startGame(state); seed is the value of Date.now() used when the state
\* carries no generator.
startGame(state, seed, elapsedMs) ==
    IF state.phase = "FALLING" \/ state.phase = "LOCKING" \/ state.phase = "CLEARING"
    THEN state
    ELSE LET rng == IF state.rng # NoRng THEN state.rng ELSE createRNG(seed)
             first == getNextPiece([state EXCEPT !.rng = rng], elapsedMs)
             second == getNextPiece([state EXCEPT !.rng = first.rng], elapsedMs)
         IN  [state EXCEPT
                 !.board = createEmptyBoard,
                 !.phase = "FALLING",
                 !.current = [first.piece EXCEPT !.generation = 1,
                                                 !.upMovesUsed = 0],
                 !.next = second.piece,
                 !.score = 0,
                 !.lines = 0,
                 !.level = 1,
                 !.pieces = 1,
                 !.combo = 0,
                 !.generation = 1,
                 !.scoringEngine = NewScoringEngine,
                 !.rng = second.rng,
                 !.gravityAccumulator = 0,
                 !.startTime = "started"]


\* compressReplay(data).inputs: run-length triples of the recorded inputs.
\* The key of an input is the string `${type}|${dx}|${dy}`, kept as the
\* tuple of its three parts.  The triple of the last run has no frame.
InputKey(input) == << input.action.type, input.action.dx, input.action.dy >>

RECURSIVE CompressFrom(_, _, _, _, _)
CompressFrom(inputs, i, current, count, compressedInputs) ==
    IF i > Len(inputs)
    THEN IF current # Null
         THEN Append(compressedInputs, [key |-> current, count |-> count])
         ELSE compressedInputs
    ELSE LET input == inputs[i]
             key == InputKey(input)
         IN  IF current # Null /\ key = current
             THEN CompressFrom(inputs, i + 1, current, count + 1, compressedInputs)
             ELSE CompressFrom(inputs, i + 1, key, 1,
                               IF current # Null
                               THEN Append(compressedInputs,
                                           [key |-> current, count |-> count,
                                            frame |-> input.frame - count])
                               ELSE compressedInputs)

compressReplay(inputs) == CompressFrom(inputs, 1, Null, 0, << >>)
(***************************************************************************)
(* State of the four specifications of this module.  Each specification     *)
(* drives its own variables and leaves the others at their initial values.  *)
(***************************************************************************)
VARIABLES
    state,        \* main.js: this.state of NeonDrop, the GameState
    raised,       \* the error raised by the last step, or "none"
    steps,        \* effective ticks and scored soft drops so far
    inputOpen,    \* player input is still followed
    benchBoard,   \* physics-pure.js: the board argument
    benchPiece,   \* physics-pure.js: the piece argument
    scoring,      \* scoring-engine.js: a ScoringEngine instance
    clock,        \* milliseconds on the wall clock since it was constructed
    sessionA,     \* game-state.js: the GameState of one session
    sessionB,     \* the GameState of a second session with the same seed
    earlier       \* a GameState this.state held at an earlier step

gameVars == << state, raised, steps, inputOpen >>
benchVars == << benchBoard, benchPiece >>
scoringVars == << scoring, clock >>
sessionVars == << sessionA, sessionB, earlier >>
vars == << gameVars, benchVars, scoringVars, sessionVars >>

(***************************************************************************)
(* The game: main.js (class NeonDrop) driving game-engine.js                *)
(***************************************************************************)

\* Bounds of the exploration.  A run is followed for MaxSteps steps that
\* take the piece down or run a timer: ticks that change the state and
\* scored soft drops.  Player input is followed in the games in progress
\* at the start, up to their first lock; a game started from the menu is
\* followed through its ticks.
MaxSteps == 2
Seeds == {1}
DeltaTimes == {500}
\* Date.now() - state.startTime when a piece is requested
ElapsedMs == {500, 5000}
Directions == {1, -1}

\* The input actions; a field an action type does not carry is 0.
Action(type, dx, dy, direction) ==
    [type |-> type, dx |-> dx, dy |-> dy, direction |-> direction]

Left == Action("MOVE", -1, 0, 0)
Right == Action("MOVE", 1, 0, 0)
SoftDrop == Action("MOVE", 0, 1, 0)
HardDrop == Action("HARD_DROP", 0, 0, 0)

Actions ==
    {Left, Right, SoftDrop, HardDrop}
    \cup {Action("ROTATE", 0, 0, d) : d \in Directions}
    \cup {Action(t, 0, 0, 0) : t \in {"UP_PRESSED", "HOLD", "SPACE"}}

\* A step placed a piece on the board.
LockedBy(before, after) ==
    before.current # NoPiece /\ after.board # before.board

\* A step logged a soft drop.
SoftDroppedBy(before, after) ==
    /\ after.scoringEngine # NoEngine /\ before.scoringEngine # NoEngine
    /\ Len(after.scoringEngine.scoreLedger) > Len(before.scoringEngine.scoreLedger)
    /\ after.scoringEngine.scoreLedger[Len(after.scoringEngine.scoreLedger)].type
          = "SOFT_DROP"

\* The state after the inputs from the i-th on, none of which raises.  A
\* finished game ignores every input.
RECURSIVE InputsFrom(_, _, _, _)
InputsFrom(from, inputs, elapsedMs, i) ==
    IF i > Len(inputs) \/ from.phase = "GAME_OVER" THEN from
    ELSE InputsFrom(handleInput(from, inputs[i], elapsedMs).state,
                    inputs, elapsedMs, i + 1)

\* The state after the first n of the given inputs.
AfterInputs(from, inputs, elapsedMs, n) ==
    InputsFrom(from, SubSeq(inputs, 1, n), elapsedMs, 1)

\* A game whose stack has grown to the top rows: ten pieces dropped where
\* they spawn.
TallStack ==
    AfterInputs(startGame(createInitialState, 1, 500),
                [i \in 1..10 |-> HardDrop], 500, 10)

\* A game one hard drop away from clearing the bottom row: O, T, FLOAT and S
\* placed in columns 0..5, the I piece above columns 6..9.
LineClearInputs ==
    << Left, Left, Left, Left, HardDrop,
       Left, HardDrop,
       Right, HardDrop,
       Left, Left, Left, HardDrop,
       Right, Right, Right >>

RowAlmostFull ==
    AfterInputs(startGame(createInitialState, 1, 500),
                LineClearInputs, 500, Len(LineClearInputs))

\* The sessions explored: a fresh coordinator, and two games in progress.
InitialStates == {createInitialState, TallStack, RowAlmostFull}

\* Values of the variables a specification does not drive.
Unused == [unused |-> TRUE]

BenchIdle ==
    /\ benchBoard = Unused
    /\ benchPiece = Unused

ScoringIdle ==
    /\ scoring = Unused
    /\ clock = 0

SessionsIdle ==
    /\ sessionA = Unused
    /\ sessionB = Unused
    /\ earlier = Unused

GameIdle ==
    /\ state = Unused
    /\ raised = "none"
    /\ steps = 0
    /\ inputOpen = TRUE

Init ==
    /\ state \in InitialStates
    /\ raised = "none"
    /\ steps = 0
    /\ inputOpen = TRUE
    /\ BenchIdle /\ ScoringIdle /\ SessionsIdle

\* The clock is read by getNextPiece, which advances state.rng, and by
\* updateStats and finalizeGame, called when a piece is locked or the game
\* ends: a step that leaves rng and the board as they were and does not end
\* the game has the same result at every clock value.
FirstClock == CHOOSE elapsedMs \in ElapsedMs : TRUE

ClockUnread(before, after) ==
    /\ after.rng = before.rng
    /\ after.board = before.board
    /\ after.phase = "GAME_OVER" => before.phase = "GAME_OVER"

\* handleAction in MENU on SPACE / ENTER
StartGame ==
    /\ state.phase = "MENU"
    /\ \E seed \in Seeds, elapsedMs \in ElapsedMs :
          state' = startGame(state, seed, elapsedMs)
    /\ raised' = "none"
    /\ inputOpen' = FALSE
    /\ UNCHANGED << steps, benchVars, scoringVars, sessionVars >>

\* loop(): Engine.tick(this.state, this.tickRate), in every phase
Tick ==
    /\ \E deltaTime \in DeltaTimes :
       \E first \in {tick(state, deltaTime, FirstClock)} :
       \E after \in IF ClockUnread(state, first) THEN {first}
                    ELSE {tick(state, deltaTime, elapsedMs) : elapsedMs \in ElapsedMs} :
          /\ after # state => steps < MaxSteps
          /\ state' = after
          /\ steps' = IF after # state THEN steps + 1 ELSE steps
          /\ inputOpen' = (inputOpen /\ ~LockedBy(state, after))
    /\ raised' = "none"
    /\ UNCHANGED << benchVars, scoringVars, sessionVars >>

\* Engine.handleInput(this.state, action)
Input ==
    /\ \E action \in Actions :
       \E first \in {handleInput(state, action, FirstClock)} :
       \E result \in IF ClockUnread(state, first.state) THEN {first}
                     ELSE {handleInput(state, action, elapsedMs) :
                              elapsedMs \in ElapsedMs} :
          /\ result.state # state => inputOpen
          /\ SoftDroppedBy(state, result.state) => steps < MaxSteps
          /\ state' = result.state
          /\ raised' = result.threw
          /\ steps' = IF SoftDroppedBy(state, result.state)
                      THEN steps + 1 ELSE steps
          /\ inputOpen' = (inputOpen /\ ~LockedBy(state, result.state))
    /\ UNCHANGED << benchVars, scoringVars, sessionVars >>

\* handleAction in FALLING / LOCKING on ESCAPE
Pause ==
    /\ state.phase \in {"FALLING", "LOCKING"}
    /\ state' = [state EXCEPT !.phase = "PAUSED"]
    /\ raised' = "none"
    /\ UNCHANGED << steps, inputOpen, benchVars, scoringVars, sessionVars >>

\* handleAction in PAUSED on ESCAPE / SPACE / ENTER
Resume ==
    /\ state.phase = "PAUSED"
    /\ state' = [state EXCEPT !.phase = "FALLING"]
    /\ raised' = "none"
    /\ UNCHANGED << steps, inputOpen, benchVars, scoringVars, sessionVars >>

\* handleAction in GAME_OVER on SPACE / ENTER / ESCAPE
Restart ==
    /\ state.phase = "GAME_OVER"
    /\ state' = createInitialState
    /\ raised' = "none"
    /\ UNCHANGED << steps, inputOpen, benchVars, scoringVars, sessionVars >>

Next == StartGame \/ Tick \/ Input \/ Pause \/ Resume \/ Restart

Spec == Init /\ [][Next]_vars

(***************************************************************************)
(* The game, from two sessions one move away from a special line clear      *)
(***************************************************************************)
Repeat(action, n) == [i \in 1..n |-> action]

\* Seed 84 deals L, L, T, T.  The first three pieces are dropped flat on
\* columns 1..3, 4..6 and 7..9 and the fourth is taken to the left wall.
SpinInputs ==
    << Left, Left, HardDrop, Right, HardDrop >>
    \o Repeat(Right, 4) \o << HardDrop >>
    \o Repeat(Left, 3)

SpinStack ==
    AfterInputs(startGame(createInitialState, 84, 5000),
                SpinInputs, 5000, Len(SpinInputs))

\* The T piece soft-dropped until it rests on blocks of the bottom row,
\* beside that row's empty column 0: a clockwise rotation kicks it into the
\* column.
SpinSetup == AfterInputs(SpinStack, Repeat(SoftDrop, 19), 5000, 19)

\* Seed 307 deals I, FLOAT, FLOAT, I.  The first three pieces are dropped on
\* columns 0..3, 8 and 9; the fourth is moved above columns 4..7.
PerfectInputs ==
    Repeat(Left, 3) \o << HardDrop >>
    \o Repeat(Right, 4) \o << HardDrop >>
    \o Repeat(Right, 5) \o << HardDrop >>
    \o << Right >>

\* A board whose only filled cells are six cells of the bottom row, and the
\* I piece that completes the row.
PerfectSetup ==
    AfterInputs(startGame(createInitialState, 307, 5000),
                PerfectInputs, 5000, Len(PerfectInputs))

ClearsInit ==
    /\ state \in {SpinSetup, PerfectSetup}
    /\ raised = "none"
    /\ steps = 0
    /\ inputOpen = TRUE
    /\ BenchIdle /\ ScoringIdle /\ SessionsIdle

ClearsNext == Tick \/ Input

SpecClears == ClearsInit /\ [][ClearsNext]_vars

(***************************************************************************)
(* Properties of tick and handleInput                                       *)
(***************************************************************************)

\* C1: in a state whose phase is MENU, PAUSED or GAME_OVER, tick returns the
\* state it was given, at every deltaTime and clock: no timer, board cell,
\* piece, score or phase differs.
TickIdleUnchanged ==
    state.phase \in {"MENU", "PAUSED", "GAME_OVER"} =>
        \A deltaTime \in DeltaTimes \cup {16, 1000}, elapsedMs \in ElapsedMs :
            tick(state, deltaTime, elapsedMs) = state

\* A paused game with gravity time pending and a piece that could fall, on
\* which tick has no effect.
TickIdleWitness ==
    /\ state.phase = "PAUSED"
    /\ state.gravityAccumulator > 0
    /\ canPieceFitAt(state.board, state.current,
                     state.current.gridX, state.current.gridY + 1)
    /\ tick(state, 500, 500) = state

\* C2: when the phase is not FALLING or LOCKING, or there is no current
\* piece, handleInput returns the state it was given, for every action.
InputIdleUnchanged ==
    (state.phase \notin {"FALLING", "LOCKING"} \/ state.current = NoPiece) =>
        \A action \in Actions, elapsedMs \in ElapsedMs :
            handleInput(state, action, elapsedMs) = Returned(state)

\* The CLEARING animation of a full bottom row, in which every action is
\* ignored.
InputIdleWitness ==
    /\ state.phase = "CLEARING"
    /\ state.clearingLines = << 19 >>
    /\ \A action \in Actions : handleInput(state, action, 500) = Returned(state)

\* C3: handleInput completes and returns a state for every action; it never
\* raises an error.
HandleInputNeverRaises ==
    \A action \in Actions, elapsedMs \in ElapsedMs :
        handleInput(state, action, elapsedMs).threw = "none"

(***************************************************************************)
(* Line-clear scoring in the game                                           *)
(***************************************************************************)
\* The diagonal corner cells around the centre of a 3x3 piece that are
\* filled or out of bounds.
FilledCorners(board, piece) ==
    {c \in {<< -1, -1 >>, << 1, -1 >>, << -1, 1 >>, << 1, 1 >>} :
        LET x == piece.gridX + 1 + c[1]
            y == piece.gridY + 1 + c[2]
        IN  \/ x < 0 \/ x >= BoardWidth \/ y >= BoardHeight
            \/ (y >= 0 /\ board[y + 1][x + 1] # Null)}

\* The events a step appended to the score ledger, of one type.
NewEvents(before, after, type) ==
    LET old == Len(before.scoringEngine.scoreLedger)
        ledger == after.scoringEngine.scoreLedger
    IN  {i \in (old + 1)..Len(ledger) : ledger[i].type = type}

\* C11: when a T piece whose last action was a rotation locks with at least
\* three of its four diagonal corners filled or out of bounds and clears n
\* lines, 1 <= n <= 3, the game adds the spin-bonus value
\* [400, 800, 1200, 1600][n - 1] times level to the score.
SpinBonusScored ==
    (/\ state.phase = "LOCKING"
     /\ state.current # NoPiece
     /\ state.current.type = "T"
     /\ state.current.gridY >= 0
     /\ state.lastMove.type = "ROTATE"
     /\ ~canPieceFitAt(state.board, state.current,
                       state.current.gridX, state.current.gridY + 1)
     /\ Cardinality(FilledCorners(state.board, state.current)) >= 3
     /\ Len(findClearedLines(placePiece(state.board, state.current))) \in 1..3)
    => \A elapsedMs \in ElapsedMs :
          LET n == Len(findClearedLines(placePiece(state.board, state.current)))
              locked == tick(state, LockDelay, elapsedMs)
              cleared == tick(locked, ClearDelay, elapsedMs)
          IN  /\ locked.phase = "CLEARING"
              /\ cleared.score = state.score + SpinTable[n] * state.level

\* C12: when finishing a line clear leaves no filled cell on the board, the
\* perfect-clear bonus [0, 800, 1200, 1800, 2000][lines] times level is
\* added once on top of the line-clear score and one PERFECT_CLEAR event is
\* logged; when filled cells remain no such event is logged.
PerfectClearScored ==
    state.phase = "CLEARING" =>
    \A elapsedMs \in ElapsedMs :
        LET lines == Len(state.clearingLines)
            cleared == tick(state, ClearDelay, elapsedMs)
            lineScore == LineTable[Min(lines, 4) + 1] * state.level
                         + (IF state.combo > 1
                            THEN 50 * state.combo * state.level ELSE 0)
            bonus == PerfectTable[Min(lines, 4) + 1] * state.level
        IN  IF isPerfectClear(cleared.board)
            THEN /\ Cardinality(NewEvents(state, cleared, "PERFECT_CLEAR")) = 1
                 /\ cleared.score = state.score + lineScore + bonus
            ELSE NewEvents(state, cleared, "PERFECT_CLEAR") = {}

(***************************************************************************)
(* physics-pure.js on its own: boards and pieces drawn from bounded sets,   *)
(* then rotated, dropped, placed and cleared by the functions of the        *)
(* module.                                                                  *)
(***************************************************************************)

\* The tallest stack of the boards drawn.
MaxStackRows == 3

\* A row whose cells are filled except in the given columns.
RowWithGaps(gaps) ==
    [x \in 1..BoardWidth |-> IF (x - 1) \in gaps THEN Null ELSE "#00FFFF"]

\* A full row, a row open in column 0, a row open in columns 3..6.
RowPatterns == {RowWithGaps({}), RowWithGaps({0}), RowWithGaps({3, 4, 5, 6})}

\* The board whose bottom rows are the given ones, under empty rows.
BoardWithStack(rows) ==
    [y \in 1..BoardHeight |->
        IF y <= BoardHeight - Len(rows) THEN EmptyRow
        ELSE rows[y - (BoardHeight - Len(rows))]]

BenchBoards ==
    UNION {{BoardWithStack(rows) : rows \in [1..h -> RowPatterns]} :
              h \in 0..MaxStackRows}

PhysicsInit ==
    /\ benchBoard \in BenchBoards
    /\ benchPiece \in {createPiece(type) : type \in PieceTypes}
    /\ GameIdle /\ ScoringIdle /\ SessionsIdle

\* tryRotation(board, piece, direction), when it succeeds
BenchRotate ==
    /\ benchPiece # NoPiece
    /\ \E direction \in Directions :
       \E result \in {tryRotation(benchBoard, benchPiece, direction)} :
          /\ result.success
          /\ benchPiece' = result.piece
    /\ UNCHANGED << benchBoard, gameVars, scoringVars, sessionVars >>

\* calculateShadow(board, piece): the piece goes to its landing row
BenchDrop ==
    /\ benchPiece # NoPiece
    /\ canPieceFitAt(benchBoard, benchPiece, benchPiece.gridX, benchPiece.gridY)
    /\ benchPiece' =
          [benchPiece EXCEPT !.gridY = calculateShadow(benchBoard, benchPiece)]
    /\ UNCHANGED << benchBoard, gameVars, scoringVars, sessionVars >>

\* placePiece(board, piece), for a piece at rest; the piece is used up, as
\* in lockPiece
BenchPlace ==
    /\ benchPiece # NoPiece
    /\ canPieceFitAt(benchBoard, benchPiece, benchPiece.gridX, benchPiece.gridY)
    /\ benchPiece.gridY = calculateShadow(benchBoard, benchPiece)
    /\ benchBoard' = placePiece(benchBoard, benchPiece)
    /\ benchPiece' = NoPiece
    /\ UNCHANGED << gameVars, scoringVars, sessionVars >>

\* removeClearedLines(board, findClearedLines(board))
BenchClear ==
    /\ findClearedLines(benchBoard) # << >>
    /\ benchBoard' = removeClearedLines(benchBoard, findClearedLines(benchBoard))
    /\ UNCHANGED << benchPiece, gameVars, scoringVars, sessionVars >>

PhysicsNext == BenchRotate \/ BenchDrop \/ BenchPlace \/ BenchClear

SpecPhysics == PhysicsInit /\ [][PhysicsNext]_vars

\* Positions tried: beyond each wall, above the board, in the stack rows and
\* below the floor.
BenchXs == {-2, -1, 0, 3, 7, 8, 9, 10}
BenchYs == {-4, -1, 0, 15, 16, 17, 18, 19, 20}

\* The occupied sub-cells of a shape, as offsets << dx, dy >>.
OccupiedCells(shape) ==
    {c \in (0..(Len(shape) - 1)) \X (0..(Len(shape) - 1)) :
        shape[c[2] + 1][c[1] + 1] # 0}

\* C4: canPieceFitAt is true exactly when every occupied sub-cell of the
\* shape maps to a column in 0..9 and to a row that is above the board or is
\* in 0..19 with an empty board cell.
FitCharacterised ==
    benchPiece # NoPiece =>
    \A x \in BenchXs \cup {benchPiece.gridX}, y \in BenchYs \cup {benchPiece.gridY} :
        canPieceFitAt(benchBoard, benchPiece, x, y)
        <=> \A c \in OccupiedCells(benchPiece.shape) :
                /\ x + c[1] \in 0..9
                /\ \/ y + c[2] < 0
                   \/ /\ y + c[2] \in 0..19
                      /\ benchBoard[y + c[2] + 1][x + c[1] + 1] = Null

\* A piece at rest on a stack: it fits where it is and above the board, not
\* one row lower, not across the right wall and not below the floor.
FitWitness ==
    /\ benchPiece # NoPiece
    /\ benchBoard[BoardHeight] # EmptyRow
    /\ benchPiece.gridY > 0
    /\ canPieceFitAt(benchBoard, benchPiece, benchPiece.gridX, benchPiece.gridY)
    /\ canPieceFitAt(benchBoard, benchPiece, benchPiece.gridX, -4)
    /\ ~canPieceFitAt(benchBoard, benchPiece, benchPiece.gridX, benchPiece.gridY + 1)
    /\ ~canPieceFitAt(benchBoard, benchPiece, 10, -4)
    /\ ~canPieceFitAt(benchBoard, benchPiece, benchPiece.gridX, 20)

\* C5: rotating a piece one way and back, in either order, gives the shape
\* matrix and the rotation index it had, and leaves its grid position.
RotationRoundTrip ==
    benchPiece # NoPiece =>
    \A direction \in Directions :
        LET back == rotatePiece(rotatePiece(benchPiece, direction), -direction)
        IN  /\ back.shape = benchPiece.shape
            /\ back.rotation = benchPiece.rotation
            /\ back.gridX = benchPiece.gridX
            /\ back.gridY = benchPiece.gridY

\* An L piece turned to rotation 3 and dropped, whose quarter turn differs
\* from it and whose round trip does not.
RotationWitness ==
    /\ benchPiece # NoPiece
    /\ benchPiece.type = "L"
    /\ benchPiece.rotation = 3
    /\ benchPiece.gridY > 0
    /\ rotatePiece(benchPiece, 1).shape # benchPiece.shape
    /\ rotatePiece(benchPiece, 1).rotation = 0
    /\ rotatePiece(rotatePiece(benchPiece, 1), -1) = benchPiece
    /\ rotatePiece(rotatePiece(benchPiece, -1), 1) = benchPiece

\* C9: findClearedLines returns the indices of the rows whose ten cells are
\* all non-empty, each once, in ascending order.
ClearedLinesExact ==
    LET cleared == findClearedLines(benchBoard)
    IN  /\ \A i \in 1..Len(cleared) : cleared[i] \in 0..19
        /\ \A i \in 1..(Len(cleared) - 1) : cleared[i] < cleared[i + 1]
        /\ \A row \in 0..19 :
              (\E i \in 1..Len(cleared) : cleared[i] = row)
              <=> \A x \in 1..10 : benchBoard[row + 1][x] # Null
        /\ (\A row \in 0..19 : (row = 19) <=> \A x \in 1..10 :
                                   benchBoard[row + 1][x] # Null)
              => cleared = << 19 >>
        /\ (\A row \in 0..19 : \E x \in 1..10 : benchBoard[row + 1][x] = Null)
              => cleared = << >>

\* A board with rows 17 and 19 full and row 18 not.
ClearedLinesWitness ==
    /\ findClearedLines(benchBoard) = << 17, 19 >>
    /\ benchBoard[19] # EmptyRow

\* The row lists tried: in and out of order, at the top and the bottom.
LineLists ==
    {<< >>, << 19 >>, << 18 >>, << 0 >>, << 17, 19 >>, << 19, 17 >>,
     << 5, 18 >>, << 16, 17, 18, 19 >>, findClearedLines(benchBoard)}

\* C10: removeClearedLines returns 20 rows of 10 cells; the named rows are
\* gone, the other rows keep their order at the bottom, and the rows added
\* at the top, one per removed row, are empty.
RemoveLinesExact ==
    \A lines \in LineLists :
        LET named == {lines[i] : i \in 1..Len(lines)}
            newBoard == removeClearedLines(benchBoard, lines)
        IN  /\ Len(newBoard) = 20
            /\ \A y \in 1..20 : Len(newBoard[y]) = 10
            /\ \A y \in 1..Cardinality(named) : newBoard[y] = EmptyRow
            /\ \A row \in (0..19) \ named :
                  newBoard[row + Cardinality({n \in named : n > row}) + 1]
                     = benchBoard[row + 1]

\* Rows 17 and 19 full around a row that is neither full nor empty: once
\* they are removed that row is the bottom row, under two new empty rows.
RemoveLinesWitness ==
    /\ RowFull(benchBoard[18]) /\ RowFull(benchBoard[20])
    /\ ~RowFull(benchBoard[19]) /\ benchBoard[19] # EmptyRow
    /\ benchBoard[17] # EmptyRow /\ ~RowFull(benchBoard[17])
    /\ LET newBoard == removeClearedLines(benchBoard, findClearedLines(benchBoard))
       IN  /\ newBoard[20] = benchBoard[19]
           /\ newBoard[19] = benchBoard[17]
           /\ newBoard[1] = EmptyRow /\ newBoard[2] = EmptyRow

(***************************************************************************)
(* scoring-engine.js on its own: scoring operations on a fresh              *)
(* ScoringEngine.                                                           *)
(***************************************************************************)

\* Operations are applied while the ledger holds fewer events than this.
MaxLedger == 3

\* rows of scoreSoftDrop and scoreHardDrop
DropRows == {1, 2}

\* The state argument of scoreLineClears: the fields the method reads.
ClearState(level, combo, board, current) ==
    [level |-> level, combo |-> combo, board |-> board, current |-> current]

\* A T piece in the bottom-left corner, three of its corners outside the
\* board.
CornerT == [createPiece("T") EXCEPT !.gridX = -1, !.gridY = 18]

\* The calls of scoreLineClears tried: a single line, a four-line perfect
\* clear in a combo with a back-to-back counter, a spin double in a combo.
ClearCalls ==
    {[state |-> ClearState(1, 0, BoardWithStack(<< RowWithGaps({0}) >>), NoPiece),
      linesCleared |-> 1, lastMove |-> NoMove],
     [state |-> ClearState(2, 2, createEmptyBoard, NoPiece)
                   @@ [backToBackCounter |-> 1],
      linesCleared |-> 4, lastMove |-> NoMove],
     [state |-> ClearState(1, 3, BoardWithStack(<< RowWithGaps({0}) >>), CornerT),
      linesCleared |-> 2, lastMove |-> [type |-> "ROTATE", direction |-> 1]]}

LedgerInit ==
    /\ scoring = NewScoringEngine
    /\ clock = 0
    /\ GameIdle /\ BenchIdle /\ SessionsIdle

LedgerSoftDrop ==
    /\ Len(scoring.scoreLedger) < MaxLedger
    /\ \E rows \in DropRows : scoring' = scoreSoftDrop(scoring, rows).engine
    /\ UNCHANGED << clock, gameVars, benchVars, sessionVars >>

LedgerHardDrop ==
    /\ Len(scoring.scoreLedger) < MaxLedger
    /\ \E rows \in DropRows : scoring' = scoreHardDrop(scoring, rows).engine
    /\ UNCHANGED << clock, gameVars, benchVars, sessionVars >>

LedgerLineClears ==
    /\ Len(scoring.scoreLedger) < MaxLedger
    /\ \E call \in ClearCalls :
          scoring' = scoreLineClears(scoring, call.state, call.linesCleared,
                                     call.lastMove).engine
    /\ UNCHANGED << clock, gameVars, benchVars, sessionVars >>

LedgerNext == LedgerSoftDrop \/ LedgerHardDrop \/ LedgerLineClears

SpecLedger == LedgerInit /\ [][LedgerNext]_vars

\* C6: after any sequence of scoring operations on a fresh engine the ledger
\* validates: the first event's hash derives from the chain root "0", every
\* later one from its predecessor's hash.
LedgerValidates ==
    LET ledger == scoring.scoreLedger
    IN  /\ validateScoreLedger(ledger)
        /\ \A i \in 1..Len(ledger) :
              ledger[i].hash =
                  hashEvent(ledger[i],
                            IF i = 1 THEN ChainRoot ELSE ledger[i - 1].hash)

\* A ledger of a drop followed by the four events of the perfect clear.
LedgerWitness ==
    /\ Len(scoring.scoreLedger) >= 5
    /\ scoring.scoreLedger[1].type = "HARD_DROP"
    /\ scoring.scoreLedger[Len(scoring.scoreLedger)].type = "LINE_CLEAR"
    /\ \E i \in 1..Len(scoring.scoreLedger) :
          scoring.scoreLedger[i].type = "PERFECT_CLEAR"
    /\ validateScoreLedger(scoring.scoreLedger)

\* The values written over an event's points.
TamperPoints == {0, 1, 5, 100, 261368378}

\* C7: replacing the points of any one event of the ledger by a different
\* value, the stored hashes left as they are, makes the ledger fail
\* validation.
TamperDetected ==
    \A i \in 1..Len(scoring.scoreLedger), points \in TamperPoints :
        points # scoring.scoreLedger[i].points =>
            ~validateScoreLedger([scoring.scoreLedger EXCEPT ![i].points = points])

(***************************************************************************)
(* Two sessions of the game started with the same seed and given the same   *)
(* ticks and inputs, each with a wall clock of its own.                     *)
(***************************************************************************)

\* Steps are followed while the piece in play is one of the first
\* MaxSessionPieces of the session.
MaxSessionPieces == 1
SessionSeeds == {1, 3}
SessionActions == {HardDrop, Left}

SessionsInit ==
    /\ sessionA = createInitialState
    /\ sessionB = createInitialState
    /\ earlier = Unused
    /\ GameIdle /\ BenchIdle /\ ScoringIdle

\* startGame in both sessions, the generator of each seeded with the same
\* value
SessionStart ==
    /\ sessionA.phase = "MENU"
    /\ \E seed \in SessionSeeds, clockA \in ElapsedMs, clockB \in ElapsedMs :
          /\ sessionA' = startGame(sessionA, seed, clockA)
          /\ sessionB' = startGame(sessionB, seed, clockB)
    /\ UNCHANGED << earlier, gameVars, benchVars, scoringVars >>

\* The same tick in both sessions
SessionTick ==
    /\ sessionA.phase \in {"FALLING", "LOCKING", "CLEARING"}
    /\ sessionA.generation <= MaxSessionPieces
    /\ \E deltaTime \in DeltaTimes, clockA \in ElapsedMs, clockB \in ElapsedMs :
          /\ sessionA' = tick(sessionA, deltaTime, clockA)
          /\ sessionB' = tick(sessionB, deltaTime, clockB)
    /\ UNCHANGED << earlier, gameVars, benchVars, scoringVars >>

\* The same input in both sessions
SessionInput ==
    /\ sessionA.phase \in {"FALLING", "LOCKING"}
    /\ sessionA.generation <= MaxSessionPieces
    /\ \E action \in SessionActions, clockA \in ElapsedMs, clockB \in ElapsedMs :
          /\ sessionA' = handleInput(sessionA, action, clockA).state
          /\ sessionB' = handleInput(sessionB, action, clockB).state
    /\ UNCHANGED << earlier, gameVars, benchVars, scoringVars >>

SessionsNext == SessionStart \/ SessionTick \/ SessionInput

SpecSessions == SessionsInit /\ [][SessionsNext]_vars

\* C8: two sessions with the same seed, ticks and inputs have produced the
\* same generator outputs and selected the same piece kinds, whatever the
\* clock of each read when a piece was requested.
SessionsAgree ==
    /\ sessionA.rng = sessionB.rng
    /\ sessionA.current.type = sessionB.current.type
    /\ sessionA.next.type = sessionB.next.type

(***************************************************************************)
(* Counters kept across locks                                              *)
(***************************************************************************)
\* C26: a lock that does not end the game has increased the piece counter
\* by exactly 1 when the next piece is current.
LockCountsOnePiece ==
    (state.phase \in {"FALLING", "LOCKING"} /\ state.current # NoPiece) =>
        /\ \A deltaTime \in DeltaTimes, elapsedMs \in ElapsedMs :
           \E after \in {tick(state, deltaTime, elapsedMs)} :
              (LockedBy(state, after) /\ after.current # NoPiece) =>
                 after.pieces = state.pieces + 1
        /\ \A action \in Actions, elapsedMs \in ElapsedMs :
           \E after \in {handleInput(state, action, elapsedMs).state} :
              (LockedBy(state, after) /\ after.current # NoPiece) =>
                 after.pieces = state.pieces + 1

\* C27: the combo counter returns to 0 on any lock that clears no line, and
\* grows by 1 when a lock's clear is finished.
ComboCountsClearingLocks ==
    /\ (state.phase \in {"FALLING", "LOCKING"} /\ state.current # NoPiece) =>
          /\ \A deltaTime \in DeltaTimes, elapsedMs \in ElapsedMs :
             \E after \in {tick(state, deltaTime, elapsedMs)} :
                (LockedBy(state, after) /\ after.phase = "FALLING") =>
                   after.combo = 0
          /\ \A action \in Actions, elapsedMs \in ElapsedMs :
             \E after \in {handleInput(state, action, elapsedMs).state} :
                (LockedBy(state, after) /\ after.phase = "FALLING") =>
                   after.combo = 0
    /\ state.phase = "CLEARING" =>
          \A deltaTime \in DeltaTimes, elapsedMs \in ElapsedMs :
          \E after \in {tick(state, deltaTime, elapsedMs)} :
             after.phase # "CLEARING" => after.combo = state.combo + 1

(***************************************************************************)
(* The game while its first piece rests on the floor: ticks of a quarter   *)
(* of a second, moves that reset the lock timer, pause and resume.  The    *)
(* session is followed until the piece is locked.                          *)
(***************************************************************************)
LockDeltaTimes == {250}
\* The player slides the piece, and tries to lift a FLOAT that is locking.
LockActions(from) ==
    {Left, Right}
    \cup IF from.phase = "LOCKING" /\ from.current.type = "FLOAT"
         THEN {Action("UP_PRESSED", 0, 0, 0)} ELSE {}

\* Games whose first piece is a T (seed 3) and a FLOAT (seed 1973), soft
\* dropped to the floor.
RestingSeeds == {3, 1973}
Resting(seed) ==
    AfterInputs(startGame(createInitialState, seed, 500),
                Repeat(SoftDrop, BoardHeight + 2), 500, BoardHeight + 2)

LockingInit ==
    /\ state \in {Resting(seed) : seed \in RestingSeeds}
    /\ raised = "none"
    /\ steps = 0
    /\ inputOpen = TRUE
    /\ BenchIdle /\ ScoringIdle /\ SessionsIdle

FirstPieceInPlay == state.pieces = 1

LockingTick ==
    /\ FirstPieceInPlay
    /\ \E deltaTime \in LockDeltaTimes, elapsedMs \in ElapsedMs :
          state' = tick(state, deltaTime, elapsedMs)
    /\ raised' = "none"
    /\ UNCHANGED << steps, inputOpen, benchVars, scoringVars, sessionVars >>

LockingInput ==
    /\ FirstPieceInPlay
    /\ state.phase \in {"FALLING", "LOCKING"}
    /\ \E action \in LockActions(state), elapsedMs \in ElapsedMs :
       \E result \in {handleInput(state, action, elapsedMs)} :
          /\ state' = result.state
          /\ raised' = result.threw
    /\ UNCHANGED << steps, inputOpen, benchVars, scoringVars, sessionVars >>

LockingNext == LockingTick \/ LockingInput \/ Pause \/ Resume

SpecLocking == LockingInit /\ [][LockingNext]_vars

\* C20: in a LOCKING state the total-lock timer is below maxLockTime, no
\* input changes the total-lock timer, and the tick on which the total
\* reaches maxLockTime locks the piece (a piece that can fall again goes
\* back to FALLING instead), whatever its kind.
LockCeiling ==
    state.phase = "LOCKING" =>
        /\ state.totalLockTime < MaxLockTime
        /\ \A action \in Actions, elapsedMs \in ElapsedMs :
              handleInput(state, action, elapsedMs).state.totalLockTime
                 = state.totalLockTime
        /\ \A deltaTime \in LockDeltaTimes, elapsedMs \in ElapsedMs :
              state.totalLockTime + deltaTime >= MaxLockTime =>
                 \E after \in {tick(state, deltaTime, elapsedMs)} :
                    IF canPieceFitAt(state.board, state.current,
                                     state.current.gridX, state.current.gridY + 1)
                    THEN after.phase = "FALLING"
                    ELSE LockedBy(state, after)

\* A FLOAT kept from locking by moves until one tick before the maximum:
\* its lock timer was just reset, and the next tick locks it.
CeilingLocksFloat ==
    /\ state.phase = "LOCKING"
    /\ state.current.type = "FLOAT"
    /\ state.lockTimer = 0
    /\ state.totalLockTime + 250 = MaxLockTime
    /\ LockedBy(state, tick(state, 250, FirstClock))

\* C17: from every state in MENU, PAUSED or GAME_OVER startGame returns a
\* FALLING state with an empty board, a current and a next piece, and score,
\* lines, combo, gravity accumulator, lock timer, total-lock timer and clear
\* timer at 0, level at 1.
StartGameResetsAll ==
    state.phase \in {"MENU", "PAUSED", "GAME_OVER"} =>
        \A seed \in Seeds, elapsedMs \in ElapsedMs :
        \E started \in {startGame(state, seed, elapsedMs)} :
           /\ started.phase = "FALLING"
           /\ started.board = createEmptyBoard
           /\ started.current # NoPiece /\ started.next # NoPiece
           /\ started.score = 0 /\ started.lines = 0 /\ started.level = 1
           /\ started.combo = 0
           /\ started.gravityAccumulator = 0
           /\ started.lockTimer = 0
           /\ started.totalLockTime = 0
           /\ started.clearTimer = 0

(***************************************************************************)
(* The end of a game                                                       *)
(***************************************************************************)
\* the pose a lock places: the piece at its shadow row
LockPose(from) ==
    [from.current EXCEPT !.gridY = calculateShadow(from.board, from.current)]

\* a step of a game in play: GAME_OVER comes with, and only with, a lock of
\* a piece whose anchor row is above the board
EndsOnlyAboveBoard(from, after) ==
    /\ after.phase = "GAME_OVER" =>
          /\ LockPose(from).gridY < 0
          /\ after.board = placePiece(from.board, LockPose(from))
          /\ after.deathPiece = LockPose(from)
          /\ after.current = NoPiece
          /\ after.next = NoPiece
    /\ (after.pieces > from.pieces \/ after.phase = "CLEARING") =>
          LockPose(from).gridY >= 0

SpawnCellsAboveBoard(type) ==
    LET piece == createPiece(type)
    IN  \A dy \in 1..Len(piece.shape) : \A dx \in 1..Len(piece.shape[dy]) :
           piece.shape[dy][dx] # 0 => piece.gridY + (dy - 1) < 0

FullBoard == [y \in 1..BoardHeight |-> [x \in 1..BoardWidth |-> "#FFFFFF"]]

\* C25: the phase becomes GAME_OVER exactly when a piece is locked, by the
\* lock timer or a hard drop, with its anchor row gridY < 0: its visible
\* cells are placed, it is kept as deathPiece, current and next are cleared.
\* The spawn pose of each of the 11 kinds lies above row 0, so canSpawn is
\* true on every board and the spawn check never ends the game.
GameOverOnlyByLock ==
    /\ (state.phase \in {"FALLING", "LOCKING"} /\ state.current # NoPiece) =>
          /\ \A deltaTime \in DeltaTimes \cup LockDeltaTimes, elapsedMs \in ElapsedMs :
                EndsOnlyAboveBoard(state, tick(state, deltaTime, elapsedMs))
          /\ \A action \in Actions, elapsedMs \in ElapsedMs :
                EndsOnlyAboveBoard(state, handleInput(state, action, elapsedMs).state)
    /\ state.phase \in {"MENU", "PAUSED", "CLEARING"} =>
          /\ \A deltaTime \in DeltaTimes, elapsedMs \in ElapsedMs :
                tick(state, deltaTime, elapsedMs).phase # "GAME_OVER"
          /\ \A action \in Actions :
                handleInput(state, action, 500).state.phase # "GAME_OVER"
          /\ \A seed \in Seeds :
                startGame(state, seed, 500).phase # "GAME_OVER"
    /\ \A type \in PieceTypes :
          /\ SpawnCellsAboveBoard(type)
          /\ canSpawn(state.board, createPiece(type))
          /\ canSpawn(FullBoard, createPiece(type))

\* a game ended by a lock above the board
EndedAboveBoard ==
    /\ state.phase = "GAME_OVER"
    /\ state.deathPiece # NoPiece
    /\ state.deathPiece.gridY < 0
    /\ state.current = NoPiece
    /\ state.next = NoPiece

\* C34: finalizeGame is invoked once in a session, on the step into
\* GAME_OVER; from then on tick and handleInput return the state they are
\* given, ledger and replay data included, and the phase leaves GAME_OVER
\* only by the coordinator's restart, to a fresh initial state in MENU.
GameOverIsFinal ==
    [][/\ (state.phase # "GAME_OVER" /\ state'.phase = "GAME_OVER") =>
             /\ state.scoringEngine # NoEngine
             /\ ~state.scoringEngine.verified
             /\ state'.scoringEngine.verified
             /\ state'.scoringEngine.finalScore = state'.score
       /\ (state'.phase # "GAME_OVER" /\ state'.scoringEngine # NoEngine) =>
             ~state'.scoringEngine.verified
       /\ state.phase = "GAME_OVER" =>
             /\ \A deltaTime \in DeltaTimes, elapsedMs \in ElapsedMs :
                   tick(state, deltaTime, elapsedMs) = state
             /\ \A action \in Actions, elapsedMs \in ElapsedMs :
                   handleInput(state, action, elapsedMs) = Returned(state)
             /\ state' # state =>
                   (state' = createInitialState /\ state'.phase = "MENU")
      ]_vars

\* a finished game whose engine has been finalised with the final score
FinalizedGame ==
    /\ state.phase = "GAME_OVER"
    /\ state.scoringEngine # NoEngine
    /\ state.scoringEngine.verified
    /\ state.scoringEngine.finalScore = state.score
    /\ state.score > 0

(***************************************************************************)
(* A game one hard drop away from its second quad clear in a row           *)
(***************************************************************************)
\* The state after the inputs lo..hi, each clear run to its end by the tick
\* that follows it.  The range is played in two halves.
RECURSIVE PlayRange(_, _, _, _, _)
PlayRange(from, inputs, elapsedMs, lo, hi) ==
    IF lo > hi \/ from.phase = "GAME_OVER" THEN from
    ELSE IF lo = hi
    THEN LET after == handleInput(from, inputs[lo], elapsedMs).state
         IN  IF after.phase = "CLEARING"
             THEN tick(after, ClearDelay, elapsedMs) ELSE after
    ELSE LET mid == (lo + hi) \div 2
         IN  PlayRange(PlayRange(from, inputs, elapsedMs, lo, mid),
                       inputs, elapsedMs, mid + 1, hi)

\* The state after the inputs from the i-th on.
PlayFrom(from, inputs, elapsedMs, i) ==
    PlayRange(from, inputs, elapsedMs, i, Len(inputs))

\* Seed 27 deals T T L O I FLOAT L I L O I O I, then I O O O L L O I.  The
\* first twelve pieces fill columns 0..8 of the four bottom rows, the
\* thirteenth (an upright I in column 9) clears them; the next seven fill
\* columns 0..8 again and the upright I is taken above column 9.
QuadInputs ==
    Repeat(Right, 3) \o << HardDrop >>   \* T
    \o Repeat(Action("ROTATE", 0, 0, 1), 3) \o Repeat(Right, 4) \o << HardDrop >>   \* T
    \o Repeat(Action("ROTATE", 0, 0, 1), 1) \o << HardDrop >>   \* L
    \o Repeat(Right, 1) \o << HardDrop >>   \* O
    \o Repeat(Left, 3) \o << HardDrop >>   \* I
    \o Repeat(Right, 4) \o << HardDrop >>   \* FLOAT
    \o Repeat(Left, 2) \o << HardDrop >>   \* L
    \o Repeat(Right, 1) \o << HardDrop >>   \* I
    \o Repeat(Action("ROTATE", 0, 0, 1), 2) \o Repeat(Left, 3) \o << HardDrop >>   \* L
    \o Repeat(Left, 2) \o << HardDrop >>   \* O
    \o Repeat(Right, 1) \o << HardDrop >>   \* I
    \o Repeat(Left, 4) \o << HardDrop >>   \* O
    \o Repeat(Action("ROTATE", 0, 0, 1), 1) \o Repeat(Right, 4) \o << HardDrop >>   \* I
    \o Repeat(Left, 3) \o << HardDrop >>   \* I
    \o Repeat(Left, 4) \o << HardDrop >>   \* O
    \o Repeat(Left, 2) \o << HardDrop >>   \* O
    \o Repeat(Right, 3) \o << HardDrop >>   \* O
    \o Repeat(Right, 1) \o << HardDrop >>   \* L
    \o Repeat(Right, 3) \o << HardDrop >>   \* L
    \o << HardDrop >>   \* O
    \o Repeat(Action("ROTATE", 0, 0, 1), 1) \o Repeat(Right, 4)   \* I

\* Every piece is requested 200 s after startGame.
QuadSetup ==
    PlayFrom(startGame(createInitialState, 27, 200000), QuadInputs, 200000, 1)

QuadsInit ==
    /\ state = QuadSetup
    /\ raised = "none"
    /\ steps = 0
    /\ inputOpen = TRUE
    /\ BenchIdle /\ ScoringIdle /\ SessionsIdle

SpecQuads == QuadsInit /\ [][ClearsNext]_vars

\* the type of the i-th event from the end of the ledger that is a line clear
RECURSIVE LastLineClear(_, _)
LastLineClear(ledger, i) ==
    IF i = 0 THEN 0
    ELSE IF ledger[i].type = "LINE_CLEAR" THEN ledger[i].metadata.lines
    ELSE LastLineClear(ledger, i - 1)

\* a quad is being cleared, and the clear before it was a quad
QuadAfterQuad(from) ==
    /\ from.phase = "CLEARING"
    /\ Len(from.clearingLines) = 4
    /\ LastLineClear(from.scoringEngine.scoreLedger,
                     Len(from.scoringEngine.scoreLedger)) = 4

\* C28: when a quad clear immediately follows an earlier quad clear, the
\* second receives the back-to-back bonus floor(base/2) * level on top of
\* its base score, and a BACK_TO_BACK event is logged.
BackToBackQuadPaid ==
    QuadAfterQuad(state) =>
        \A elapsedMs \in ElapsedMs :
        \E after \in {tick(state, ClearDelay, elapsedMs)} :
           LET before == state.scoringEngine.scoreLedger
               ledger == after.scoringEngine.scoreLedger
           IN  /\ after.score >= state.score + 800 * state.level
                                             + (800 \div 2) * state.level
               /\ \E i \in (Len(before) + 1)..Len(ledger) :
                     /\ ledger[i].type = "BACK_TO_BACK"
                     /\ ledger[i].points = (800 \div 2) * state.level

(***************************************************************************)
(* scoring-engine.js on its own: the replay data of a ScoringEngine and     *)
(* the verdict of validateReplay.  The clock advances with the calls.       *)
(***************************************************************************)
MaxInputs == 10
MaxFrames == 1
MaxSnapshots == 1
MaxClockMs == 11500
MaxInputClockMs == 200

\* Milliseconds between two recorded inputs: even, or with one long gap.
InputGaps == {16, 40}
\* Milliseconds waited before statistics are taken, and the pieces counted
StatsWaits == {5000, 11000}
StatsPieces == {10, 66}
SnapshotScores == {0, 100}

ReplayInit ==
    /\ scoring = NewScoringEngine
    /\ clock = 0
    /\ GameIdle /\ BenchIdle /\ SessionsIdle

\* The game is initialised as the first call on the engine, or never.
ReplayInitializeGame ==
    /\ scoring = NewScoringEngine /\ clock = 0
    /\ scoring' = initializeGame(scoring, clock)
    /\ UNCHANGED << clock, gameVars, benchVars, sessionVars >>

ReplayRecordInput ==
    /\ Len(scoring.inputs) < MaxInputs
    /\ \E gap \in IF Len(scoring.inputs) = 1 THEN InputGaps ELSE {16} :
          /\ clock + gap <= MaxInputClockMs
          /\ clock' = clock + gap
          /\ scoring' = recordInput(scoring, Left, 1, clock')
    /\ UNCHANGED << gameVars, benchVars, sessionVars >>

ReplayUpdateFrame ==
    /\ scoring.frameCount < MaxFrames
    /\ scoring' = updateFrame(scoring)
    /\ UNCHANGED << clock, gameVars, benchVars, sessionVars >>

ReplaySnapshot ==
    /\ Len(scoring.stateSnapshots) <= MaxSnapshots
    /\ \E score \in SnapshotScores :
          scoring' = addStateSnapshot(scoring, 0, score)
    /\ UNCHANGED << clock, gameVars, benchVars, sessionVars >>

ReplayUpdateStats ==
    /\ \E wait \in StatsWaits, pieces \in StatsPieces :
          /\ clock + wait <= MaxClockMs
          /\ clock' = clock + wait
          /\ scoring' = updateStats(scoring, [pieces |-> pieces], clock')
    /\ UNCHANGED << gameVars, benchVars, sessionVars >>

ReplayScore ==
    /\ scoring.scoreLedger = << >>
    /\ scoring' = scoreHardDrop(scoring, 2).engine
    /\ UNCHANGED << clock, gameVars, benchVars, sessionVars >>

\* The ledger is a public field of the object: a script on the page lowers
\* or raises the points of the event logged.
ReplayTamper ==
    /\ Len(scoring.scoreLedger) = 1
    /\ scoring.scoreLedger[1].points = 4
    /\ scoring' = [scoring EXCEPT !.scoreLedger[1].points = 400]
    /\ UNCHANGED << clock, gameVars, benchVars, sessionVars >>

ReplayNext ==
    \/ ReplayInitializeGame
    \/ ReplayRecordInput
    \/ ReplayUpdateFrame
    \/ ReplaySnapshot
    \/ ReplayUpdateStats
    \/ ReplayScore
    \/ ReplayTamper

SpecReplay == ReplayInit /\ [][ReplayNext]_vars

\* The five checks, each on its own.
LongEnough ==
    scoring.stats.totalTime.sinceEpoch \/ scoring.stats.totalTime.ms > 10000

HumanRate ==
    \/ scoring.stats.pps.pieces = 0
    \/ scoring.stats.pps.over.sinceEpoch
    \/ scoring.stats.pps.pieces * 1000 < 5 * scoring.stats.pps.over.ms

\* The variance of n gaps t is the sum over the pairs i < j of
\* (t[i] - t[j])^2, divided by n^2.
UnevenTiming ==
    Len(scoring.inputs) >= 10 =>
        LET n == Len(scoring.inputs) - 1
            t == [i \in 1..n |-> scoring.inputs[i + 1].timestamp.ms
                                   - scoring.inputs[i].timestamp.ms]
            pairs == {p \in (1..n) \X (1..n) : p[1] < p[2]}
            spread == [p \in pairs |-> (t[p[1]] - t[p[2]]) * (t[p[1]] - t[p[2]])]
            RECURSIVE Total(_)
            Total(ps) == IF ps = {} THEN 0
                         ELSE LET p == CHOOSE q \in ps : TRUE
                              IN  spread[p] + Total(ps \ {p})
        IN  Total(pairs) > 10 * n * n

ChainIntact ==
    \A i \in 1..Len(scoring.scoreLedger) :
        scoring.scoreLedger[i].hash
           = hashEvent(scoring.scoreLedger[i],
                       IF i = 1 THEN ChainRoot ELSE scoring.scoreLedger[i - 1].hash)

SnapshotsMonotone ==
    \A i \in 1..Len(scoring.stateSnapshots) :
        LET snapshots == scoring.stateSnapshots
        IN  /\ snapshots[i].frame > (IF i = 1 THEN -1 ELSE snapshots[i - 1].frame)
            /\ snapshots[i].score >= (IF i = 1 THEN -1 ELSE snapshots[i - 1].score)

\* C13: validateReplay is true exactly when the five checks hold together:
\* total time above 10 s, fewer than 5 pieces per second, input-timing
\* variance above 10 once there are 10 inputs, a valid ledger chain and
\* monotone snapshots.
ReplayVerdict ==
    validateReplay(scoring)
    <=> (LongEnough /\ HumanRate /\ UnevenTiming /\ ChainIntact /\ SnapshotsMonotone)

\* Sixty-six pieces in eleven seconds, six per second, with the other four
\* checks passing: not eligible.
ReplayWitness ==
    /\ scoring.stats.pps.pieces = 66
    /\ scoring.stats.pps.over = [sinceEpoch |-> FALSE, ms |-> 11000]
    /\ Len(scoring.scoreLedger) = 1
    /\ Len(scoring.stateSnapshots) = 2
    /\ LongEnough /\ UnevenTiming /\ ChainIntact /\ SnapshotsMonotone
    /\ ~validateReplay(scoring)

(***************************************************************************)
(* Properties of the session as a whole                                    *)
(***************************************************************************)
\* C14: a session that reaches GAME_OVER after 10 seconds of play or less
\* is finalised with a verdict of false:  finalizeGame returns
\* canSubmitToTournament: this.validateReplay() of the engine it leaves.
ShortSessionIneligible ==
    (/\ state.phase = "GAME_OVER"
     /\ state.scoringEngine # NoEngine
     /\ state.scoringEngine.verified
     /\ state.scoringEngine.stats.totalTime.ms <= 10000)
    => ~validateReplay(state.scoringEngine)

\* C15 as stated: a current piece is present exactly when the phase is
\* FALLING or LOCKING.
PieceOnlyFallingOrLocking ==
    (state.current # NoPiece) <=> state.phase \in {"FALLING", "LOCKING"}

\* C15, amended: a current piece is present exactly when the phase is
\* FALLING, LOCKING or PAUSED; pausing keeps the piece in play.
PieceWhileInPlay ==
    (state.current # NoPiece) <=> state.phase \in {"FALLING", "LOCKING", "PAUSED"}

\* A paused game holding its piece
PausedWithPiece ==
    state.phase = "PAUSED" /\ state.current # NoPiece

\* C16: in every reachable state the board has 20 rows of 10 cells each.
BoardDimensions ==
    /\ Len(state.board) = BoardHeight
    /\ \A y \in 1..Len(state.board) : Len(state.board[y]) = BoardWidth

\* A game that has locked pieces and removed a full row, with cells left
\* on its board
BoardAfterRemoval ==
    /\ state.lines > 0
    /\ state.phase \in {"FALLING", "LOCKING"}
    /\ \E y \in 1..Len(state.board) : \E x \in 1..Len(state.board[y]) :
          state.board[y][x] # Null
    /\ BoardDimensions

\* C18: every action passed to handleInput during a session is appended to
\* the input list of the session's replay data.
InputsRecorded ==
    (state.phase \in {"FALLING", "LOCKING"} /\ state.scoringEngine # NoEngine) =>
        \A action \in Actions, elapsedMs \in ElapsedMs :
        \E result \in {handleInput(state, action, elapsedMs)} :
           result.threw = "none" =>
              LET before == state.scoringEngine.inputs
                  after == result.state.scoringEngine.inputs
              IN  /\ Len(after) = Len(before) + 1
                  /\ after[Len(after)].action = action

\* The points of the events of a session's ledger, added up
LedgerTotal(engine) ==
    IF engine = NoEngine THEN 0
    ELSE SumTo([i \in 1..Len(engine.scoreLedger) |-> engine.scoreLedger[i].points],
               Len(engine.scoreLedger))

\* C19: in every reachable state the score is the sum of the points of the
\* events in the session's ledger.
ScoreIsLedgerTotal ==
    state.score = LedgerTotal(state.scoringEngine)

\* A session that has scored soft drops, hard drops and a line clear
ScoredEveryWay ==
    /\ state.score > 0
    /\ \A type \in {"SOFT_DROP", "HARD_DROP", "LINE_CLEAR"} :
          \E i \in 1..Len(state.scoringEngine.scoreLedger) :
             state.scoringEngine.scoreLedger[i].type = type
    /\ ScoreIsLedgerTotal

(***************************************************************************)
(* The first piece of a game under the loop's ticks, the player moving     *)
(* and rotating as they please.  No pause, no restart.  The state in which *)
(* the piece has just landed may be remembered in `earlier`; `steps` then  *)
(* tells whether a tick has run since.                                     *)
(***************************************************************************)
StallActions == {Action("ROTATE", 0, 0, d) : d \in Directions}

StallInit ==
    /\ state = Resting(3)
    /\ raised = "none"
    /\ steps = 0
    /\ inputOpen = TRUE
    /\ BenchIdle /\ ScoringIdle /\ SessionsIdle

StallTick ==
    /\ FirstPieceInPlay
    /\ \E deltaTime \in LockDeltaTimes, elapsedMs \in ElapsedMs :
          state' = tick(state, deltaTime, elapsedMs)
    /\ raised' = "none"
    /\ steps' = IF earlier = Unused THEN 0 ELSE 1
    /\ UNCHANGED << inputOpen, benchVars, scoringVars, sessionVars >>

StallInput ==
    /\ FirstPieceInPlay
    /\ \E action \in StallActions, elapsedMs \in ElapsedMs :
       \E result \in {handleInput(state, action, elapsedMs)} :
          /\ state' = result.state
          /\ raised' = result.threw
    /\ UNCHANGED << steps, inputOpen, benchVars, scoringVars, sessionVars >>

\* Remember the state of a piece that has just landed.
StallRemember ==
    /\ FirstPieceInPlay
    /\ earlier = Unused
    /\ state.phase = "LOCKING" /\ state.lockTimer = 0 /\ state.totalLockTime = 0
    /\ state.lastMove.type = "GRAVITY_HIT"
    /\ earlier' = state
    /\ UNCHANGED << gameVars, benchVars, scoringVars, sessionA, sessionB >>

StallNext == StallTick \/ StallInput \/ StallRemember

SpecStall == StallInit /\ [][StallNext]_vars

\* C21: the player cannot keep one piece unlocked forever.  The engine's
\* step depends on the state and the input only, so a state of the piece
\* in play that recurs after a tick can recur for ever: no such state
\* recurs.
NoStallCycle ==
    ~(FirstPieceInPlay /\ steps > 0 /\ state = earlier)

\* C22: every step from FALLING into LOCKING, by a tick or by an input,
\* gives a state whose lock timer and total-lock timer are both 0.
LandingResetsTimers ==
    (state.phase = "FALLING" /\ state.current # NoPiece) =>
        /\ \A deltaTime \in LockDeltaTimes, elapsedMs \in ElapsedMs :
           \E after \in {tick(state, deltaTime, elapsedMs)} :
              after.phase = "LOCKING" =>
                 after.lockTimer = 0 /\ after.totalLockTime = 0
        /\ \A action \in Actions, elapsedMs \in ElapsedMs :
           \E after \in {handleInput(state, action, elapsedMs).state} :
              after.phase = "LOCKING" =>
                 after.lockTimer = 0 /\ after.totalLockTime = 0

(***************************************************************************)
(* Hold                                                                    *)
(***************************************************************************)
AtSpawnPose(piece, type) ==
    /\ piece.type = type
    /\ piece.shape = PIECE_DEFINITIONS(type).shape
    /\ piece.gridX = PIECE_DEFINITIONS(type).spawn.x
    /\ piece.gridY = PIECE_DEFINITIONS(type).spawn.y
    /\ piece.rotation = 0

HoldSwaps(from, after, elapsedMs) ==
    /\ after.hold.type = from.current.type
    /\ IF from.hold # NoPiece
       THEN AtSpawnPose(after.current, from.hold.type) /\ after.next = from.next
       ELSE /\ AtSpawnPose(after.current, from.next.type)
            /\ after.next = getNextPiece(from, elapsedMs).piece
    /\ ~after.canHold
    /\ after.board = from.board

\* a step that locks no piece keeps holding disabled, and HOLD then returns
\* the state it was given
HoldStaysUsed(from, after) ==
    (~LockedBy(from, after) /\ after.phase \in {"FALLING", "LOCKING"}) =>
        /\ ~after.canHold
        /\ handleInput(after, Action("HOLD", 0, 0, 0), 500).state = after

\* C29: a successful HOLD puts the kind of the current piece in hold and
\* makes current the held kind, or the next kind with a fresh next drawn, at
\* its spawn pose with rotation 0; after it every further HOLD returns the
\* state unchanged until a piece has locked, and each lock that does not end
\* the game enables holding again.
HoldOncePerPiece ==
    (state.phase \in {"FALLING", "LOCKING"} /\ state.current # NoPiece) =>
        /\ \A elapsedMs \in ElapsedMs :
           \E held \in {handleInput(state, Action("HOLD", 0, 0, 0), elapsedMs).state} :
              IF state.canHold
              THEN /\ HoldSwaps(state, held, elapsedMs)
                   /\ handleInput(held, Action("HOLD", 0, 0, 0), elapsedMs).state = held
              ELSE held = state
        /\ ~state.canHold =>
              /\ \A deltaTime \in DeltaTimes \cup LockDeltaTimes :
                    HoldStaysUsed(state, tick(state, deltaTime, 500))
              /\ \A action \in Actions :
                    HoldStaysUsed(state, handleInput(state, action, 500).state)
        /\ \A deltaTime \in DeltaTimes, elapsedMs \in ElapsedMs :
           \E after \in {tick(state, deltaTime, elapsedMs)} :
              (LockedBy(state, after) /\ after.phase # "GAME_OVER") => after.canHold
        /\ \A action \in Actions, elapsedMs \in ElapsedMs :
           \E after \in {handleInput(state, action, elapsedMs).state} :
              (LockedBy(state, after) /\ after.phase # "GAME_OVER") => after.canHold

\* a piece was held and the lock of the piece that replaced it enabled
\* holding again
HeldThenLocked ==
    /\ state.phase \in {"FALLING", "LOCKING"}
    /\ state.hold # NoPiece
    /\ state.canHold

(***************************************************************************)
(* Hard drop                                                               *)
(***************************************************************************)
\* C30: HARD_DROP in FALLING or LOCKING locks the piece within that input
\* at its shadow row, adds exactly 2 points per row descended with one
\* HARD_DROP event when that is positive, and never returns a state with the
\* same piece as current.
HardDropLocksAtShadow ==
    (state.phase \in {"FALLING", "LOCKING"} /\ state.current # NoPiece) =>
        \A elapsedMs \in ElapsedMs :
        \E result \in {handleInput(state, HardDrop, elapsedMs)} :
           LET after == result.state
               rows == calculateShadow(state.board, state.current)
                          - state.current.gridY
               before == state.scoringEngine.scoreLedger
               ledger == after.scoringEngine.scoreLedger
           IN  /\ result.threw = "none"
               /\ after.board = placePiece(state.board, LockPose(state))
               /\ after.phase \in {"FALLING", "CLEARING", "GAME_OVER"}
               /\ after.score = state.score + 2 * rows
               /\ IF rows > 0
                  THEN /\ Len(ledger) = Len(before) + 1
                       /\ SubSeq(ledger, 1, Len(before)) = before
                       /\ ledger[Len(ledger)].type = "HARD_DROP"
                       /\ ledger[Len(ledger)].points = 2 * rows
                  ELSE ledger = before
               /\ \/ after.current = NoPiece
                  \/ after.current.generation # state.current.generation

\* a hard drop completed a row, and after the clear the next piece is falling
HardDropped ==
    /\ state.phase = "FALLING"
    /\ state.current # NoPiece
    /\ state.lastMove = [type |-> "HARD_DROP"]
    /\ state.score > 0
    /\ state.pieces = 10

(***************************************************************************)
(* One tick of a falling piece, at the levels the gravity interval covers  *)
(***************************************************************************)
FallDeltaTimes == {250, 500, 1000}
FallLevels == {1, 11, 20, 25}

\* the state when `lines` has reached the first line count of a level
AtLevel(from, level) ==
    [from EXCEPT !.level = level, !.lines = (level - 1) * 10]

ClearDeltaTimes == {100, 200, 500}

\* the piece a lock places: at its shadow row (a resting piece is at it)
LockedBoard(from) ==
    placePiece(from.board,
               [from.current EXCEPT !.gridY = calculateShadow(from.board, from.current)])

EntersClearing(from, after) ==
    after.phase = "CLEARING" =>
        /\ after.clearTimer = 0
        /\ after.current = NoPiece
        /\ after.board = LockedBoard(from)
        /\ after.clearingLines = findClearedLines(after.board)
        /\ Len(after.clearingLines) >= 1

ClearingTick(from, deltaTime, elapsedMs) ==
    \E after \in {tick(from, deltaTime, elapsedMs)} :
       IF from.clearTimer + deltaTime < 300
       THEN /\ after.phase = "CLEARING"
            /\ after.clearingLines = from.clearingLines
            /\ after.board = from.board
            /\ after.current = NoPiece
       ELSE /\ after.board = removeClearedLines(from.board, from.clearingLines)
            /\ after.lines = from.lines + Len(from.clearingLines)
            /\ after.clearingLines = << >>
            /\ after.phase = "FALLING"
            /\ after.current # NoPiece
            /\ after.current.type = from.next.type
            /\ after.current.gridX = PIECE_DEFINITIONS(from.next.type).spawn.x
            /\ after.current.gridY = PIECE_DEFINITIONS(from.next.type).spawn.y

\* C24: CLEARING is entered only by a lock that completed at least one row,
\* with the clear timer 0, no current piece and clearingLines the completed
\* rows; ticks keep the phase while their accumulated time is below 300 ms,
\* and the tick reaching 300 ms removes exactly those rows, adds their
\* number to the lines counter, empties clearingLines and spawns the next
\* piece in FALLING.
ClearingCycle ==
    /\ (state.phase \in {"FALLING", "LOCKING"} /\ state.current # NoPiece) =>
          /\ \A deltaTime \in DeltaTimes, elapsedMs \in ElapsedMs :
                EntersClearing(state, tick(state, deltaTime, elapsedMs))
          /\ \A action \in Actions, elapsedMs \in ElapsedMs :
                EntersClearing(state, handleInput(state, action, elapsedMs).state)
    /\ state.phase \in {"MENU", "PAUSED", "GAME_OVER"} =>
          /\ \A deltaTime \in DeltaTimes :
                tick(state, deltaTime, 500).phase # "CLEARING"
          /\ \A action \in Actions :
                handleInput(state, action, 500).state.phase # "CLEARING"
    /\ state.phase = "CLEARING" =>
          \A first \in ClearDeltaTimes, elapsedMs \in ElapsedMs :
             /\ ClearingTick(state, first, elapsedMs)
             /\ \E later \in {tick(state, first, elapsedMs)} :
                   later.phase = "CLEARING" =>
                      \A second \in ClearDeltaTimes :
                         /\ ClearingTick(later, second, elapsedMs)
                         /\ \E last \in {tick(later, second, elapsedMs)} :
                               last.phase = "CLEARING" =>
                                  ClearingTick(last, 100, elapsedMs)

\* a clear has run to its end: the rows are counted and a piece is falling
ClearFinished ==
    /\ state.lines > 0
    /\ state.phase = "FALLING"
    /\ state.current # NoPiece
    /\ state.clearingLines = << >>
    /\ state.clearTimer = 0

(***************************************************************************)
(* The replay export of a ScoringEngine: inputs recorded as frames pass,    *)
(* then compressed.                                                         *)
(***************************************************************************)
MaxReplayInputs == 4
MaxReplayFrames == 3

CompressInit ==
    /\ scoring = initializeGame(NewScoringEngine, 0)
    /\ clock = 0
    /\ GameIdle /\ BenchIdle /\ SessionsIdle

CompressRecordInput ==
    /\ Len(scoring.inputs) < MaxReplayInputs
    /\ \E action \in {Left, Right, SoftDrop} :
          scoring' = recordInput(scoring, action, 0, clock)
    /\ UNCHANGED << clock, gameVars, benchVars, sessionVars >>

CompressUpdateFrame ==
    /\ scoring.frameCount < MaxReplayFrames
    /\ scoring' = updateFrame(scoring)
    /\ clock' = clock + 16
    /\ UNCHANGED << gameVars, benchVars, sessionVars >>

CompressNext == CompressRecordInput \/ CompressUpdateFrame

SpecCompress == CompressInit /\ [][CompressNext]_vars

\* the index of the first input of the k-th run
RECURSIVE RunStart(_, _)
RunStart(compressed, k) ==
    IF k = 1 THEN 1 ELSE RunStart(compressed, k - 1) + compressed[k - 1].count

\* C33: each triple of compressReplay carries the frame of the first input
\* of the run it collapses, that run's action key and its length, and the
\* run lengths sum to the number of inputs.
CompressKeepsRunStart ==
    \E compressed \in {compressReplay(scoring.inputs)} :
       /\ \A k \in 1..Len(compressed) :
             LET first == RunStart(compressed, k)
             IN  /\ "frame" \in DOMAIN compressed[k]
                 /\ compressed[k].frame = scoring.inputs[first].frame
                 /\ compressed[k].key = InputKey(scoring.inputs[first])
                 /\ \A i \in first..(first + compressed[k].count - 1) :
                       InputKey(scoring.inputs[i]) = compressed[k].key
       /\ RunStart(compressed, Len(compressed) + 1) = Len(scoring.inputs) + 1

(***************************************************************************)
(* A FLOAT beside an overhang.  Seed 1973 deals FLOAT, T, O: the FLOAT is   *)
(* held, the T is dropped pointing down (cells (3..5, 18) and (4, 19)), the *)
(* FLOAT is taken back from hold, moved to column 2 and soft dropped to row *)
(* 18, beside the T's left arm and above the floor.  The session is         *)
(* followed while that FLOAT is the current piece.                          *)
(***************************************************************************)
OverhangInputs ==
    << Action("HOLD", 0, 0, 0) >> \o Repeat(Action("ROTATE", 0, 0, 1), 2)
    \o << HardDrop, Action("HOLD", 0, 0, 0), Left, Left >>
    \o Repeat(SoftDrop, 19)

FloatByOverhang ==
    AfterInputs(startGame(createInitialState, 1973, 500),
                OverhangInputs, 500, Len(OverhangInputs))

FloatInit ==
    /\ state = FloatByOverhang
    /\ raised = "none"
    /\ steps = 0
    /\ inputOpen = TRUE
    /\ BenchIdle /\ ScoringIdle /\ SessionsIdle

\* the inputs of the session: slides, and the FLOAT's lift
FloatActions == {Left, Right, Action("UP_PRESSED", 0, 0, 0)}

FloatInPlay ==
    /\ state.phase \in {"FALLING", "LOCKING"}
    /\ state.current # NoPiece
    /\ state.current.type = "FLOAT"
    /\ state.pieces = 3

FloatTick ==
    /\ FloatInPlay
    /\ \E deltaTime \in DeltaTimes, elapsedMs \in ElapsedMs :
          state' = tick(state, deltaTime, elapsedMs)
    /\ raised' = "none"
    /\ UNCHANGED << steps, inputOpen, benchVars, scoringVars, sessionVars >>

FloatInput ==
    /\ FloatInPlay
    /\ \E action \in FloatActions, elapsedMs \in ElapsedMs :
       \E result \in {handleInput(state, action, elapsedMs)} :
          /\ state' = result.state
          /\ raised' = result.threw
    /\ UNCHANGED << steps, inputOpen, benchVars, scoringVars, sessionVars >>

FloatNext == FloatTick \/ FloatInput

SpecFloat == FloatInit /\ [][FloatNext]_vars

\* C31: a MOVE changes the score by dy when it succeeds with dy > 0, logging
\* one SOFT_DROP event, and by 0 otherwise; a horizontal MOVE changes
\* neither the score nor the ledger, whatever the kind of the piece.
MoveScoresRowsAsked ==
    (state.phase \in {"FALLING", "LOCKING"} /\ state.current # NoPiece) =>
        \A action \in {Left, Right, SoftDrop} :
        \E after \in {handleInput(state, action, 500).state} :
           LET before == state.scoringEngine.scoreLedger
               ledger == after.scoringEngine.scoreLedger
               moved == after.current # state.current
           IN  IF action.dy > 0 /\ moved
               THEN /\ after.score = state.score + action.dy
                    /\ Len(ledger) = Len(before) + 1
                    /\ ledger[Len(ledger)].type = "SOFT_DROP"
               ELSE /\ after.score = state.score
                    /\ ledger = before

\* C35: in LOCKING, a MOVE whose target fits and has free space beneath it
\* is applied, and the game is in FALLING no later than the next tick, with
\* the lock timer reset.
ShiftOffRestingCell ==
    (state.phase = "LOCKING" /\ state.current # NoPiece) =>
        \A action \in {Left, Right} :
           LET piece == state.current
               targetX == piece.gridX + action.dx
           IN  (/\ canPieceFitAt(state.board, piece, targetX, piece.gridY)
                /\ canPieceFitAt(state.board, piece, targetX, piece.gridY + 1)) =>
                  \E result \in {handleInput(state, action, 500)} :
                     /\ result.threw = "none"
                     /\ result.state.current.gridX = targetX
                     /\ result.state.lockTimer = 0
                     /\ \/ result.state.phase = "FALLING"
                        \/ tick(result.state, 500, 500).phase = "FALLING"

(***************************************************************************)
(* Rotation with wall kicks                                                *)
(***************************************************************************)
\* a game state holding the given board and piece
StateWith(board, piece) ==
    LET started == startGame(createInitialState, 1, 500)
    IN  [started EXCEPT !.board = board,
                        !.current = [started.current EXCEPT
                                        !.type = piece.type,
                                        !.shape = piece.shape,
                                        !.color = piece.color,
                                        !.rotation = piece.rotation,
                                        !.gridX = piece.gridX,
                                        !.gridY = piece.gridY]]

KickCharacterised(board, piece, direction) ==
    LET rotated == rotatePiece(piece, direction)
        toRot == (piece.rotation + direction + 4) % 4
        kicks == IF piece.type = "I" THEN KickTableI(piece.rotation, toRot)
                 ELSE KickTableDefault(piece.rotation, toRot)
        fitsKick(k) == canPieceFitAt(board, rotated, rotated.gridX + kicks[k].x,
                                     rotated.gridY + kicks[k].y)
        tried == IF piece.type = "O" THEN {} ELSE 1..Len(kicks)
        base == canPieceFitAt(board, rotated, rotated.gridX, rotated.gridY)
    IN  \E result \in {tryRotation(board, piece, direction)} :
           /\ Len(kicks) = 4
           /\ base => result = [success |-> TRUE, piece |-> rotated]
           /\ (~base /\ \E k \in tried : fitsKick(k)) =>
                 \E k \in tried :
                    /\ fitsKick(k)
                    /\ \A j \in 1..(k - 1) : ~fitsKick(j)
                    /\ result.success
                    /\ result.piece = [rotated EXCEPT !.gridX = @ + kicks[k].x,
                                                      !.gridY = @ + kicks[k].y]
           /\ result.success <=> (base \/ \E k \in tried : fitsKick(k))
           /\ ~result.success =>
                 \E from \in {StateWith(board, piece)} :
                    handleInput(from, Action("ROTATE", 0, 0, direction), 500)
                       = Returned(from)

\* Positions tried: against each wall, in and just above the stack rows.
KickXs == {-1, 0, 7, 8}
KickYs == {16, 17, 18}

\* C32: tryRotation returns the bare rotated piece when it fits where it
\* is; otherwise, except for O, the rotated piece displaced by the first
\* offset, in the order of the table of its transition (the I table for I,
\* the shared table for the others), at which it fits; it fails exactly when
\* the base position and all four offsets fail (for O: the base position),
\* and the ROTATE input then leaves the state unchanged.
KicksInTableOrder ==
    benchPiece # NoPiece =>
        \A x \in KickXs, y \in KickYs, direction \in Directions :
           KickCharacterised(benchBoard,
                             [benchPiece EXCEPT !.gridX = x, !.gridY = y],
                             direction)

\* a rotation on the stack that a wall kick displaced sideways
KickedSideways ==
    /\ benchPiece # NoPiece
    /\ benchPiece.rotation # 0
    /\ benchPiece.gridY > 0
    /\ benchPiece.gridX # PIECE_DEFINITIONS(benchPiece.type).spawn.x

\* C36: in every reachable state whose phase is FALLING or LOCKING the
\* current piece fits at its own position: canPieceFitAt is true of the
\* board, the piece and the piece's gridX and gridY.
PieceFitsInPlace ==
    (state.phase \in {"FALLING", "LOCKING"} /\ state.current # NoPiece) =>
        canPieceFitAt(state.board, state.current, state.current.gridX, state.current.gridY)

\* A piece resting on the stack, inside the board
PieceAmongBlocks ==
    /\ state.phase = "LOCKING"
    /\ state.current # NoPiece
    /\ state.current.gridY >= 0
    /\ canPieceFitAt(state.board, state.current, state.current.gridX, state.current.gridY)
    /\ ~canPieceFitAt(state.board, state.current, state.current.gridX, state.current.gridY + 1)

NoFullRowInPlay ==
    state.phase \in {"FALLING", "LOCKING"} =>
        \A y \in 1..Len(state.board) : ~RowFull(state.board[y])

\* A piece in play after a line clear, above rows that were kept
PlayAfterClear ==
    /\ state.phase \in {"FALLING", "LOCKING"}
    /\ state.lines > 0
    /\ \E y \in 1..Len(state.board) : state.board[y] # EmptyRow
    /\ \A y \in 1..Len(state.board) : ~RowFull(state.board[y])

\* the inputs that may change a piece's row: slides, the soft drop, a MOVE
\* one row up, and UP_PRESSED
Up == Action("MOVE", 0, -1, 0)
RowActions == {Left, Right, SoftDrop, Up, Action("UP_PRESSED", 0, 0, 0)}

\* C40: a FLOAT's upMovesUsed never exceeds 7 and, once it is 7, no input
\* moves the piece to a smaller row index; no MOVE or UP_PRESSED input moves
\* a piece of another kind to a smaller row index.
InputRaisesOnlyFloat ==
    (state.phase \in {"FALLING", "LOCKING"} /\ state.current # NoPiece) =>
        /\ state.current.upMovesUsed <= MaxUpMoves
        /\ \A action \in RowActions :
              \E result \in {handleInput(state, action, FirstClock)} :
                 (/\ result.state.current # NoPiece
                  /\ result.state.current.generation = state.current.generation
                  /\ \/ state.current.type # "FLOAT"
                     \/ state.current.upMovesUsed >= MaxUpMoves) =>
                       /\ result.state.current.gridY >= state.current.gridY
                       /\ result.state.current.upMovesUsed <= MaxUpMoves

(***************************************************************************)
(* A game one hard drop away from its tenth cleared line                   *)
(***************************************************************************)
\* Seed 23: eighteen pieces fill columns 0..8 and an upright I in column 9
\* clears four rows, three more pieces and an I clear four again, seven
\* more fill columns 0..8 of four rows and the upright I is taken above
\* column 9: the game has 8 lines and the drop clears rows 9..12.
LevelInputs ==
    Repeat(Right, 3) \o << HardDrop >>   \* O
    \o Repeat(Left, 3) \o << HardDrop >>   \* T
    \o Repeat(Right, 1) \o << HardDrop >>   \* L
    \o Repeat(Action("ROTATE", 0, 0, 1), 3) \o Repeat(Left, 1) \o << HardDrop >>   \* T
    \o Repeat(Action("ROTATE", 0, 0, 1), 2) \o Repeat(Left, 3) \o << HardDrop >>   \* L
    \o << HardDrop >>   \* O
    \o Repeat(Right, 3) \o << HardDrop >>   \* L
    \o Repeat(Right, 1) \o << HardDrop >>   \* I
    \o Repeat(Right, 1) \o << HardDrop >>   \* T
    \o Repeat(Left, 3) \o << HardDrop >>   \* I
    \o Repeat(Left, 4) \o << HardDrop >>   \* O
    \o Repeat(Action("ROTATE", 0, 0, 1), 1) \o Repeat(Left, 2) \o << HardDrop >>   \* L
    \o Repeat(Left, 1) \o << HardDrop >>   \* O
    \o Repeat(Right, 3) \o << HardDrop >>   \* O
    \o Repeat(Right, 3) \o << HardDrop >>   \* O
    \o Repeat(Action("ROTATE", 0, 0, 1), 3) \o Repeat(Right, 2) \o << HardDrop >>   \* T
    \o Repeat(Left, 4) \o << HardDrop >>   \* O
    \o Repeat(Left, 1) \o << HardDrop >>   \* L
    \o Repeat(Action("ROTATE", 0, 0, 1), 1) \o Repeat(Right, 4) \o << HardDrop >>   \* I
    \o Repeat(Action("ROTATE", 0, 0, 1), 2) \o Repeat(Right, 2) \o << HardDrop >>   \* L
    \o Repeat(Action("ROTATE", 0, 0, 1), 3) \o Repeat(Right, 4) \o << HardDrop >>   \* T
    \o Repeat(Action("ROTATE", 0, 0, 1), 2) \o << HardDrop >>   \* L
    \o Repeat(Action("ROTATE", 0, 0, 1), 1) \o Repeat(Right, 4) \o << HardDrop >>   \* I
    \o Repeat(Action("ROTATE", 0, 0, 1), 2) \o Repeat(Right, 2) \o << HardDrop >>   \* T
    \o Repeat(Left, 3) \o << HardDrop >>   \* J
    \o Repeat(Left, 3) \o << HardDrop >>   \* Z
    \o Repeat(Left, 2) \o << HardDrop >>   \* FLOAT
    \o Repeat(Left, 1) \o << HardDrop >>   \* O
    \o Repeat(Left, 3) \o << HardDrop >>   \* J
    \o Repeat(Right, 2) \o << HardDrop >>   \* I
    \o Repeat(Action("ROTATE", 0, 0, 1), 1) \o Repeat(Right, 4)   \* I

LevelSetup ==
    PlayFrom(startGame(createInitialState, 23, 200000), LevelInputs, 200000, 1)

LevelInit ==
    /\ state = LevelSetup
    /\ raised = "none"
    /\ steps = 0
    /\ inputOpen = TRUE
    /\ BenchIdle /\ ScoringIdle /\ SessionsIdle

SpecLevel == LevelInit /\ [][ClearsNext]_vars

\* C39: in a started game the level is floor(lines / 10) + 1, and no step
\* within a session lowers lines, level or score.
LevelFollowsLines ==
    [][(state.phase # "MENU" /\ state'.phase # "MENU") =>
          /\ state.level = (state.lines \div 10) + 1
          /\ state'.level = (state'.lines \div 10) + 1
          /\ state'.lines >= state.lines
          /\ state'.level >= state.level
          /\ state'.score >= state.score]_vars

\* The tenth line has been cleared and the game is at level 2
ReachedLevelTwo ==
    /\ state.phase \in {"FALLING", "LOCKING"}
    /\ state.lines >= 10
    /\ state.level = 2
    /\ state.score > 0

====
